---- MODULE Spec2Model ----
(***************************************************************************)
(* A model of nmtwizard/preprocess: the operator resolver and the          *)
(* directional Pipeline (prepoperator.py), the batch Processor with its    *)
(* worker pool and the SharedState cache (preprocess.py).                  *)
(***************************************************************************)
EXTENDS Integers, Sequences, FiniteSets, TLC

VARIABLES
    \* Processor.process
    processor,        \* Processor: [_num_workers, _config, _pipeline_type]
    sstate,           \* Processor._global_shared_state, a SharedState
    pc,               \* where Processor.process stands
    exit_step,        \* its preprocess_exit_step argument
    pipeline,         \* its local variable pipeline (inline mode)
    emitted,          \* the number of batches the loader has yielded
    current,          \* inline mode: the batch the loop holds, or None
    results,          \* the deque of AsyncResult handles, oldest first
    task_queue,       \* the pool's queue of tasks not yet taken by a worker
    running,          \* worker -> the task it is running, or None
    worker_pipeline,  \* worker -> the global worker_pipeline of that process
    consumed,         \* the batches handed to the consumer, in order
    error,            \* the exception process() ended with
    failed,           \* the batches whose processing raised (history)
    \* building pipelines
    build_in,         \* the arguments of Pipeline(): [config, exit_step, label]
    built_for,        \* process type -> the Pipeline built for it, or the error
    \* get_operator_params
    params_in,        \* its arguments: [config, label]
    params_out,       \* its result, None before the call
    \* SharedState
    shared_args,      \* the arguments of SharedState(): [config, num_workers]
    cache,            \* the SharedState object
    gets,             \* the calls of get() made: [label, err, ret], in order
    \* Filter.__call__
    call_op,          \* the filter: [name, criteria, process_type]
    call_batch,       \* the batch: [tu_list, meta]
    call_err,         \* the exception a call raised
    call_count,       \* the number of calls made
    \* Pipeline.__call__
    run_in,           \* the call: [pipeline, options]
    run_pc,           \* where the call stands
    run_i,            \* the index of the next operator, then of the next TU
    run_batch,        \* its local variable tu_batch: [tu_list, meta]
    run_passed,       \* the operator calls made: [index, options], in order
    run_final,        \* TU -> the number of times finalize() ran on it
    run_err,          \* the exception the call raised
    \* operator_info_generator
    gen_in,           \* its arguments
    gen_out,          \* what it yielded and the exception it ended with
    \* register_operator
    registry,         \* the module's _OPERATORS_REGISTRY: name -> class
    decorators,       \* the _decorator closures returned so far (their names)
    reg_err,          \* the exception the last call raised
    first_bound,      \* name -> the class first registered under it (history)
    \* get_operator_params and build_operator on objects
    heap,             \* the dict objects: reference -> dict
    frame_in,         \* the arguments: [entry, label], entry a reference
    frame_out,        \* the results of the calls made, in order
    \* InferenceProcessor.process_input
    inference,        \* the InferenceProcessor: [_config, _pipeline, ...]
    threads,          \* thread -> its call of process_input
    allocated         \* the number of Pipeline objects created

proc_vars == <<processor, sstate, pc, exit_step, pipeline, emitted, current,
               results, task_queue, running, worker_pipeline, consumed, error,
               failed>>

build_vars == <<build_in, built_for>>

params_vars == <<params_in, params_out>>

shared_vars == <<shared_args, cache, gets>>

call_vars == <<call_op, call_batch, call_err, call_count>>

run_vars == <<run_in, run_pc, run_i, run_batch, run_passed, run_final, run_err>>

gen_vars == <<gen_in, gen_out>>

reg_vars == <<registry, decorators, reg_err, first_bound>>

frame_vars == <<heap, frame_in, frame_out>>

inf_vars == <<inference, threads, allocated>>

more_vars == <<run_vars, gen_vars, reg_vars, frame_vars, inf_vars>>

vars == <<proc_vars, build_vars, params_vars, shared_vars, call_vars, more_vars>>

(***************************************************************************)
(* Python values.  A value is a tagged pair: <<"n", "None">>, <<"b", bool>>,*)
(* <<"s", string>> or <<"d", dict>>; a dict is a function from its keys    *)
(* (strings) to values.                                                    *)
(*                                                                         *)
(* Where an operator below uses an intermediate result several times, the  *)
(* result is bound through a singleton set,                                *)
(*     CHOOSE r \in {body : x \in {value}} : TRUE                           *)
(* which reads "body, with x the value": the value is computed once.       *)
(***************************************************************************)
NoneV == <<"n", "None">>

Str(s) == <<"s", s>>

Bool(b) == <<"b", b>>

Dict(d) == <<"d", d>>

EmptyDict == << >>

IsNone(v) == v[1] = "n"

IsDict(v) == v[1] = "d"

\* Python truthiness of a value.
Truthy(v) ==
    CASE v[1] = "n" -> FALSE
      [] v[1] = "b" -> v[2]
      [] v[1] = "s" -> v[2] # ""
      [] v[1] = "d" -> DOMAIN v[2] # {}

\* dict.get(k): the value, or None when the key is absent.
DictGet(d, k) == IF k \in DOMAIN d THEN d[k] ELSE NoneV

\* dict.get(k, default)
DictGetDefault(d, k, default) == IF k \in DOMAIN d THEN d[k] ELSE default

\* The dict left by dict.pop(k, None).
DictPop(d, k) == [x \in DOMAIN d \ {k} |-> d[x]]

\* The dict left by d[k] = v.
DictSet(d, k, v) == [x \in DOMAIN d \cup {k} |-> IF x = k THEN v ELSE d[x]]

\* nmtwizard.config.merge_config(a, b): b deep-merged over a; a scalar of b
\* wins, two mappings under the same key are merged recursively.
RECURSIVE merge_config(_, _)
merge_config(a, b) ==
    [k \in DOMAIN a \cup DOMAIN b |->
        IF k \notin DOMAIN b THEN a[k]
        ELSE IF ~IsDict(b[k]) THEN b[k]
        ELSE IF k \in DOMAIN a /\ IsDict(a[k])
             THEN Dict(merge_config(a[k][2], b[k][2]))
             ELSE b[k]]

(***************************************************************************)
(* Corpus labels.  The label of a batch is read from its metadata and is   *)
(* absent, a string, a list of strings or (unexpectedly) a mapping.        *)
(* A raw label is [kind, items] with items the sequence of strings it      *)
(* holds (the keys, for a mapping); a label as the pipeline sees it is     *)
(* [kind, elems] with elems a set.                                         *)
(***************************************************************************)
NoLabel == [kind |-> "none", elems |-> {}]

SeqRange(s) == {s[i] : i \in DOMAIN s}

\* bool(label) of a raw label
RawTruthy(raw) ==
    CASE raw.kind = "none" -> FALSE
      [] raw.kind = "str" -> raw.items # << >> /\ raw.items[1] # ""
      [] OTHER -> raw.items # << >>

_get_corpus_label(raw) ==
    IF RawTruthy(raw)
    THEN IF raw.kind = "list" THEN [kind |-> "set", elems |-> SeqRange(raw.items)]
         ELSE IF raw.kind = "str" THEN [kind |-> "set", elems |-> {raw.items[1]}]
         ELSE [kind |-> raw.kind, elems |-> SeqRange(raw.items)]
    ELSE [kind |-> raw.kind, elems |-> {}]

\* bool(override_label)
LabelTruthy(label) == label.elems # {}

(***************************************************************************)
(* Process types and the operator registry.                                *)
(***************************************************************************)
TRAINING == "TRAINING"

INFERENCE == "INFERENCE"

POSTPROCESS == "POSTPROCESS"

ProcessType == {TRAINING, INFERENCE, POSTPROCESS}

\* The registered operator classes: the class a name is bound to is given by
\* its base class and the capabilities it overrides.
\*   tokenization: a MonolingualOperator accepting runtime options, whose
\*                 constructor records the tokenizer in the build state;
\*   length_filter: a Filter;
\*   alignment:    an Operator declaring a shared class and its builders.
_OPERATORS_REGISTRY ==
    [tokenization  |-> [cls |-> "Tokenizer", base |-> "MonolingualOperator",
                        options |-> TRUE, shared |-> FALSE],
     length_filter |-> [cls |-> "LengthFilter", base |-> "Filter",
                        options |-> FALSE, shared |-> FALSE],
     alignment     |-> [cls |-> "Aligner", base |-> "Operator",
                        options |-> FALSE, shared |-> TRUE]]

\* Every operator applied for every process type.
is_applied_for_any(operator_cls, process_type) == TRUE

\* Operator.is_applied_for / Filter.is_applied_for
is_applied_for(operator_cls, process_type) ==
    IF operator_cls.base = "Filter" THEN process_type = TRAINING ELSE TRUE

\* An operator that takes any payload.
accept_options_always(operator_cls) == TRUE

\* Operator.accept_options (False unless the class overrides it)
accept_options(operator_cls) == operator_cls.options

(***************************************************************************)
(* The resolver.  A result is a record with err = "none" on success.       *)
(***************************************************************************)
\* A reader of the type that lets a missing type through as the empty name.
get_operator_type_unchecked(config) ==
    LET op == DictGet(config, "op")
    IN  [err |-> "none", op |-> IF IsNone(op) THEN "" ELSE op[2]]

get_operator_type(config) ==
    LET op == DictGet(config, "op")
    IN  IF IsNone(op) THEN [err |-> "missing_op", op |-> ""]
        ELSE [err |-> "none", op |-> op[2]]

\* A lookup that falls back on the base class for an unregistered type.
get_operator_class_or_base(op) ==
    IF op \in DOMAIN _OPERATORS_REGISTRY
    THEN [err |-> "none", cls |-> _OPERATORS_REGISTRY[op]]
    ELSE [err |-> "none", cls |-> [cls |-> "Operator", base |-> "Operator", options |-> FALSE, shared |-> FALSE]]

get_operator_class(op) ==
    IF op \in DOMAIN _OPERATORS_REGISTRY
    THEN [err |-> "none", cls |-> _OPERATORS_REGISTRY[op]]
    ELSE [err |-> "unknown_op", cls |-> [cls |-> "", base |-> "", options |-> FALSE, shared |-> FALSE]]

\* The labels of override_label that are keys of override_config.
OverrideMatches(override_label, override_config) ==
    {label \in override_label.elems : label \in DOMAIN override_config}

\* get_operator_params taking the override of one of the matching labels
\* when several match.
get_operator_params_any_match(config, operator_type, override_label) ==
    LET stripped == DictPop(DictPop(config, "op"), "overrides")
        override_config == DictGet(config, "overrides")
    IN  IF LabelTruthy(override_label) /\ Truthy(override_config)
        THEN LET override == OverrideMatches(override_label, override_config[2])
             IN  IF override # {}
                 THEN [err |-> "none",
                       params |-> merge_config(
                           stripped,
                           override_config[2][CHOOSE l \in override : TRUE][2])]
                 ELSE [err |-> "none", params |-> stripped]
        ELSE [err |-> "none", params |-> stripped]

\* get_operator_params: the entry without its routing fields, with the
\* override of the single matching label merged over it.
get_operator_params(config, operator_type, override_label) ==
    LET stripped == DictPop(DictPop(config, "op"), "overrides")
        override_config == DictGet(config, "overrides")
    IN  IF LabelTruthy(override_label) /\ Truthy(override_config)
        THEN LET override == OverrideMatches(override_label, override_config[2])
                 override_num == Cardinality(override)
             IN  IF override_num > 1
                 THEN [err |-> "ambiguous", params |-> EmptyDict]
                 ELSE IF override_num = 1
                 THEN [err |-> "none",
                       params |-> merge_config(
                           stripped,
                           override_config[2][CHOOSE l \in override : TRUE][2])]
                 ELSE [err |-> "none", params |-> stripped]
        ELSE [err |-> "none", params |-> stripped]

\* An exit step is None or <<"i", n>>.
Step(n) == <<"i", n>>

\* A generator that reads the disabled flag in the entry, before the
\* override of the label is merged.
RECURSIVE operator_info_from_entry_flag(_, _, _, _, _, _)
operator_info_from_entry_flag(config, process_type, override_label, preprocess_exit_step, ignore_disabled, i) ==
    IF i >= Len(config)
       \/ (~IsNone(preprocess_exit_step) /\ i > preprocess_exit_step[2])
    THEN [err |-> "none", infos |-> << >>, read |-> {}]
    ELSE
    LET operator_config == config[i + 1]
        operator_type == get_operator_type(operator_config)
        operator_cls == get_operator_class(operator_type.op)
        operator_params == get_operator_params(
            operator_config, operator_type.op, override_label)
        rest == operator_info_from_entry_flag(config, process_type, override_label,
                                   preprocess_exit_step, ignore_disabled, i + 1)
        skip == [rest EXCEPT !.read = @ \cup {i}]
    IN  IF operator_type.err # "none"
        THEN [err |-> operator_type.err, infos |-> << >>, read |-> {i}]
        ELSE IF operator_cls.err # "none"
        THEN [err |-> operator_cls.err, infos |-> << >>, read |-> {i}]
        ELSE IF ~is_applied_for(operator_cls.cls, process_type)
        THEN skip
        ELSE IF operator_params.err # "none"
        THEN [err |-> operator_params.err, infos |-> << >>, read |-> {i}]
        ELSE IF ignore_disabled
                /\ Truthy(DictGetDefault(operator_config, "disabled", Bool(FALSE)))
        THEN skip
        ELSE [rest EXCEPT
                !.infos = <<[cls |-> operator_cls.cls,
                             params |-> operator_params.params,
                             type |-> operator_type.op,
                             i |-> i]>> \o @,
                !.read = @ \cup {i}]

\* operator_info_generator, from entry i (0-based) on: the tuples yielded up
\* to the end of the list, the exit step or the first error, and the indices
\* of the entries it read.
RECURSIVE operator_info_from(_, _, _, _, _, _)
operator_info_from(config, process_type, override_label, preprocess_exit_step, ignore_disabled, i) ==
    IF i >= Len(config)
       \/ (~IsNone(preprocess_exit_step) /\ i > preprocess_exit_step[2])
    THEN [err |-> "none", infos |-> << >>, read |-> {}]
    ELSE
    LET operator_config == config[i + 1]
        operator_type == get_operator_type(operator_config)
        operator_cls == get_operator_class(operator_type.op)
        operator_params == get_operator_params(
            operator_config, operator_type.op, override_label)
        rest == operator_info_from(config, process_type, override_label,
                                   preprocess_exit_step, ignore_disabled, i + 1)
        skip == [rest EXCEPT !.read = @ \cup {i}]
    IN  IF operator_type.err # "none"
        THEN [err |-> operator_type.err, infos |-> << >>, read |-> {i}]
        ELSE IF operator_cls.err # "none"
        THEN [err |-> operator_cls.err, infos |-> << >>, read |-> {i}]
        ELSE IF ~is_applied_for(operator_cls.cls, process_type)
        THEN skip
        ELSE IF operator_params.err # "none"
        THEN [err |-> operator_params.err, infos |-> << >>, read |-> {i}]
        ELSE IF ignore_disabled
                /\ Truthy(DictGetDefault(operator_params.params, "disabled", Bool(FALSE)))
        THEN skip
        ELSE [rest EXCEPT
                !.infos = <<[cls |-> operator_cls.cls,
                             params |-> operator_params.params,
                             type |-> operator_type.op,
                             i |-> i]>> \o @,
                !.read = @ \cup {i}]

operator_info_generator(config, process_type, override_label, preprocess_exit_step, ignore_disabled) ==
    operator_info_from(config, process_type, override_label,
                       preprocess_exit_step, ignore_disabled, 0)

(***************************************************************************)
(* Building operators and pipelines.  A global configuration is a record   *)
(* [source, target, preprocess, postprocess, vocabulary]: the two language *)
(* codes, the two operator lists (sequences of entries, empty when the key *)
(* is absent) and the vocabulary paths.                                    *)
(***************************************************************************)
_add_lang_info(operator_params, config, side) ==
    LET side_params == DictGet(operator_params, side)
    IN  IF ~IsNone(side_params)
        THEN DictSet(operator_params, side,
                     Dict(DictSet(side_params[2], "lang", Str(config[side]))))
        ELSE DictSet(operator_params, side \o "_lang", Str(config[side]))

\* "%s_%d" % (operator_type, index)
DefaultName(operator_type, index) == operator_type \o "_" \o ToString(index)

\* The constructor of an operator class, as far as the build state goes: a
\* tokenizer of the forward list records itself as the tokenizer in use.
OperatorInit(operator_cls, build_state) ==
    IF operator_cls.cls = "Tokenizer" /\ ~build_state.postprocess_only[2]
    THEN [build_state EXCEPT !.src_tokenizer = Str("tokenizer"),
                             !.tgt_tokenizer = Str("tokenizer")]
    ELSE build_state

\* A shared state is None or <<"m", mapping>>, the mapping a function from
\* operator indices to the resources of that operator.
SharedMap(m) == <<"m", m>>

SharedTruthy(shared_state) == shared_state[1] = "m" /\ DOMAIN shared_state[2] # {}

\* shared_state.get(i) if shared_state else None
SharedFor(shared_state, i) ==
    IF SharedTruthy(shared_state) /\ i \in DOMAIN shared_state[2]
    THEN SharedMap(shared_state[2][i])
    ELSE NoneV

\* build_operator: the bound operator and the build state its constructor
\* leaves.
build_operator(operator_type, operator_cls, operator_params, global_config, process_type, build_state, index, shared_state) ==
    LET with_lang == _add_lang_info(
            _add_lang_info(operator_params, global_config, "source"),
            global_config, "target")
        name == DictGetDefault(with_lang, "name",
                               Str(DefaultName(operator_type, index)))[2]
        params == DictPop(with_lang, "name")
    IN  [operator |-> [name |-> name,
                       type |-> operator_type,
                       index |-> index,
                       cls |-> operator_cls,
                       params |-> params,
                       process_type |-> process_type,
                       postprocess_only |-> build_state.postprocess_only[2],
                       shared |-> IF SharedTruthy(shared_state)
                                  THEN shared_state ELSE NoneV],
         build_state |-> OperatorInit(operator_cls, build_state)]

\* Pipeline.__init__: the start state read from the configuration.
InitialState(config) ==
    [src_tokenizer |-> NoneV,
     tgt_tokenizer |-> NoneV,
     postprocess_only |-> Bool(FALSE),
     src_vocabulary |-> config.vocabulary.source,
     tgt_vocabulary |-> config.vocabulary.target]

\* The loop of Pipeline._add_op_list over the tuples the generator yields,
\* from the k-th on: acc is [ops, build_state].
RECURSIVE AddOps(_, _, _, _, _, _)
AddOps(infos, k, global_config, process_type, shared_state, acc) ==
    IF k > Len(infos) THEN acc
    ELSE LET info == infos[k]
         IN  CHOOSE all \in
               {AddOps(infos, k + 1, global_config, process_type, shared_state,
                       [ops |-> Append(acc.ops, built.operator),
                        build_state |-> built.build_state]) :
                built \in {build_operator(info.type, info.cls, info.params,
                                          global_config, process_type,
                                          acc.build_state, info.i,
                                          SharedFor(shared_state, info.i))}} :
               TRUE

\* _add_op_list resolving the whole list, whatever the exit step.
_add_op_list_ignoring_exit_step(self, op_list_config, global_config, step, shared_state) ==
    CHOOSE added \in
      {LET infos == gen.infos
           start == [ops |-> self.ops, build_state |-> self.build_state]
       IN  CHOOSE ended \in
             {[err |-> gen.err,
               pipeline |-> [self EXCEPT !.ops = acc.ops,
                                         !.build_state = acc.build_state]] :
              acc \in {AddOps(infos, 1, global_config, self.process_type,
                              shared_state, start)}} :
             TRUE :
       gen \in {operator_info_generator(op_list_config, self.process_type,
                                        self.override_label, NoneV, TRUE)}} :
      TRUE

\* Pipeline._add_op_list on a pipeline under construction.
_add_op_list(self, op_list_config, global_config, step, shared_state) ==
    CHOOSE added \in
      {LET infos == gen.infos
           start == [ops |-> self.ops, build_state |-> self.build_state]
       IN  CHOOSE ended \in
             {[err |-> gen.err,
               pipeline |-> [self EXCEPT !.ops = acc.ops,
                                         !.build_state = acc.build_state]] :
              acc \in {AddOps(infos, 1, global_config, self.process_type,
                              shared_state, start)}} :
             TRUE :
       gen \in {operator_info_generator(op_list_config, self.process_type,
                                        self.override_label, step, TRUE)}} :
      TRUE

\* The operators left in forward order.
NotReversed(s) == s

\* list(reversed(self._ops))
Reversed(s) == [i \in 1..Len(s) |-> s[Len(s) + 1 - i]]

\* _build_pipeline keeping the two states where they are.
_build_pipeline_without_swap(self, config, preprocess_exit_step, shared_state) ==
    CHOOSE built \in
      {IF main.err # "none" THEN main
       ELSE IF self.process_type = POSTPROCESS
       THEN CHOOSE ended \in
              {IF config.postprocess # << >>
               THEN _add_op_list(swapped, config.postprocess, config, NoneV, NoneV)
               ELSE [err |-> "none", pipeline |-> swapped] :
               swapped \in
                 {[main.pipeline EXCEPT
                     !.ops = Reversed(main.pipeline.ops),
                     !.build_state = [main.pipeline.build_state EXCEPT
                                         !.postprocess_only = Bool(TRUE)]]}} :
              TRUE
       ELSE main :
       main \in
         {IF config.preprocess # << >>
          THEN _add_op_list([self EXCEPT !.ops = << >>],
                            config.preprocess, config,
                            preprocess_exit_step, shared_state)
          ELSE [err |-> "none", pipeline |-> [self EXCEPT !.ops = << >>]]}} :
      TRUE

\* Pipeline._build_pipeline
_build_pipeline(self, config, preprocess_exit_step, shared_state) ==
    CHOOSE built \in
      {IF main.err # "none" THEN main
       ELSE IF self.process_type = POSTPROCESS
       THEN CHOOSE ended \in
              {IF config.postprocess # << >>
               THEN _add_op_list(swapped, config.postprocess, config, NoneV, NoneV)
               ELSE [err |-> "none", pipeline |-> swapped] :
               swapped \in
                 {[main.pipeline EXCEPT
                     !.ops = Reversed(main.pipeline.ops),
                     !.start_state = main.pipeline.build_state,
                     !.build_state = [main.pipeline.start_state EXCEPT
                                         !.postprocess_only = Bool(TRUE)]]}} :
              TRUE
       ELSE main :
       main \in
         {IF config.preprocess # << >>
          THEN _add_op_list([self EXCEPT !.ops = << >>],
                            config.preprocess, config,
                            preprocess_exit_step, shared_state)
          ELSE [err |-> "none", pipeline |-> [self EXCEPT !.ops = << >>]]}} :
      TRUE

\* Pipeline(config, process_type, preprocess_exit_step, override_label,
\* shared_state): [err, pipeline]; the pipeline exists only when err = "none".
Pipeline(config, process_type, preprocess_exit_step, override_label, shared_state) ==
    _build_pipeline([process_type |-> process_type,
                     override_label |-> override_label,
                     start_state |-> InitialState(config),
                     build_state |-> InitialState(config),
                     ops |-> << >>],
                    config, preprocess_exit_step, shared_state)

(***************************************************************************)
(* SharedState: the cache of shared objects.  Its fields:                   *)
(*   _all_state     index of operator -> key -> shared instance            *)
(*   _cached_state  repr(label) -> the mapping returned for that label     *)
(*   _manager       whether the manager process has been started           *)
(*   registered     the SharedManager.register calls made, in order        *)
(*   starts         the number of manager processes started                *)
(* A shared instance is [id, hosted, cls, args]: id is its identity and    *)
(* hosted tells a handle on a manager-hosted object from a local object.   *)
(***************************************************************************)
\* repr() of a scalar value
PyRepr(v) ==
    CASE v[1] = "n" -> "None"
      [] v[1] = "b" -> IF v[2] THEN "True" ELSE "False"
      [] v[1] = "s" -> "'" \o v[2] \o "'"

\* str(args) of a tuple of one or two scalars
ArgsStr(args) ==
    IF Len(args) = 1 THEN "(" \o PyRepr(args[1]) \o ",)"
    ELSE "(" \o PyRepr(args[1]) \o ", " \o PyRepr(args[2]) \o ")"

\* A key that leaves the constructor arguments out.
InstanceKeyWithoutArgs(cls, args) == cls

\* "%s_%s" % (cls.__name__, str(args))
InstanceKey(cls, args) == cls \o "_" \o ArgsStr(args)

\* No operator declaring a shared class.
get_shared_classes_none(operator_cls) == << >>

\* Operator.get_shared_classes: None (here the empty sequence) unless the
\* class declares shared classes; the aligner declares its model class.
get_shared_classes(operator_cls) ==
    IF operator_cls.shared THEN <<"AlignerModel">> ELSE << >>

\* Operator.get_shared_builders: None (here the empty mapping) unless the
\* class declares builders; the aligner builds its model from the model path
\* of its parameters.
get_shared_builders(operator_cls, operator_params, process_type) ==
    IF operator_cls.shared
    THEN [aligner |-> [cls |-> "AlignerModel",
                       args |-> <<DictGet(operator_params, "model")>>]]
    ELSE << >>

\* The orders in which the elements of a set can be listed.
RECURSIVE Orders(_)
Orders(S) ==
    IF S = {} THEN {<< >>}
    ELSE UNION {{<<x>> \o o : o \in Orders(S \ {x})} : x \in S}

\* repr(override_label): a set is printed in its iteration order, which is
\* any order of its elements.
ReprOf(override_label) ==
    {<<override_label.kind>> \o o : o \in Orders(override_label.elems)}

\* SharedState.__init__ before its call of get()
NewSharedState(preprocess_exit_step) ==
    [_all_state |-> << >>,
     _cached_state |-> << >>,
     _preprocess_exit_step |-> preprocess_exit_step,
     _manager |-> FALSE,
     registered |-> << >>,
     starts |-> 0]

\* The number of shared instances built so far.
InstanceCount(all_state) ==
    LET RECURSIVE Sum(_)
        Sum(I) == IF I = {} THEN 0
                  ELSE LET i == CHOOSE x \in I : TRUE
                       IN  Cardinality(DOMAIN all_state[i]) + Sum(I \ {i})
    IN  Sum(DOMAIN all_state)

\* The class names registered for the tuples of infos, from the k-th on.
RECURSIVE RegisterAll(_, _)
RegisterAll(infos, k) ==
    IF k > Len(infos) THEN << >>
    ELSE get_shared_classes(infos[k].cls) \o RegisterAll(infos, k + 1)

\* The loop that creates the shared instances with a key that no existing
\* instance has: every builder builds.
RECURSIVE CreateInstancesAnew(_, _, _, _, _)
CreateInstancesAnew(infos, k, process_type, hosted, acc) ==
    IF k > Len(infos) THEN acc
    ELSE
    LET i == infos[k].i
        builders == get_shared_builders(infos[k].cls, infos[k].params, process_type)
        existing_state == IF i \in DOMAIN acc.all_state THEN acc.all_state[i] ELSE << >>
        \* one builder per operator
        name == CHOOSE n \in DOMAIN builders : TRUE
        key == InstanceKey(builders[name].cls, builders[name].args)
               \o "#" \o ToString(InstanceCount(acc.all_state))
        shared_instance == [id |-> InstanceCount(acc.all_state) + 1,
                            hosted |-> hosted,
                            cls |-> builders[name].cls,
                            args |-> builders[name].args]
        new_state == IF key \in DOMAIN existing_state THEN existing_state
                     ELSE [x \in DOMAIN existing_state \cup {key} |->
                              IF x = key THEN shared_instance ELSE existing_state[x]]
    IN  IF DOMAIN builders = {}
        THEN CreateInstancesAnew(infos, k + 1, process_type, hosted, acc)
        ELSE CHOOSE all \in
               {CreateInstancesAnew(infos, k + 1, process_type, hosted, next) :
                next \in
                  {[all_state |-> [x \in DOMAIN acc.all_state \cup {i} |->
                                     IF x = i THEN new_state ELSE acc.all_state[x]],
                    shared_state |-> [x \in DOMAIN acc.shared_state \cup {i} |->
                                     IF x = i THEN [n \in {name} |-> new_state[key]]
                                     ELSE acc.shared_state[x]]]}} :
               TRUE

\* "Create all new shared instances": the loop over the builders of the
\* tuples of infos, from the k-th on; acc is [all_state, shared_state].
RECURSIVE CreateInstances(_, _, _, _, _)
CreateInstances(infos, k, process_type, hosted, acc) ==
    IF k > Len(infos) THEN acc
    ELSE
    LET i == infos[k].i
        builders == get_shared_builders(infos[k].cls, infos[k].params, process_type)
        existing_state == IF i \in DOMAIN acc.all_state THEN acc.all_state[i] ELSE << >>
        \* one builder per operator
        name == CHOOSE n \in DOMAIN builders : TRUE
        key == InstanceKey(builders[name].cls, builders[name].args)
        shared_instance == [id |-> InstanceCount(acc.all_state) + 1,
                            hosted |-> hosted,
                            cls |-> builders[name].cls,
                            args |-> builders[name].args]
        new_state == IF key \in DOMAIN existing_state THEN existing_state
                     ELSE [x \in DOMAIN existing_state \cup {key} |->
                              IF x = key THEN shared_instance ELSE existing_state[x]]
    IN  IF DOMAIN builders = {}
        THEN CreateInstances(infos, k + 1, process_type, hosted, acc)
        ELSE CHOOSE all \in
               {CreateInstances(infos, k + 1, process_type, hosted, next) :
                next \in
                  {[all_state |-> [x \in DOMAIN acc.all_state \cup {i} |->
                                     IF x = i THEN new_state ELSE acc.all_state[x]],
                    shared_state |-> [x \in DOMAIN acc.shared_state \cup {i} |->
                                     IF x = i THEN [n \in {name} |-> new_state[key]]
                                     ELSE acc.shared_state[x]]]}} :
               TRUE

\* A get() that takes a mapping for a label like any other: it records an
\* empty shared state under the repr() of the label.
SharedState_get_caching_all(self, config, process_type, num_workers, override_label, label_repr) ==
    [err |-> "none",
     ret |-> NoneV,
     self |-> [self EXCEPT !._cached_state =
                 [x \in DOMAIN @ \cup {label_repr} |->
                    IF x = label_repr THEN << >> ELSE @[x]]]]

\* SharedState.get(override_label) on the cache self, with label_repr the
\* repr() of the label: [err, ret, self], ret the value returned (when
\* err = "none") and self the cache as the call leaves it.
SharedState_get(self, config, process_type, num_workers, override_label, label_repr) ==
    LET start == num_workers > 0 /\ ~self._manager
    IN  IF override_label.kind = "dict"
        THEN [err |-> "none", ret |-> NoneV, self |-> self]
        ELSE IF label_repr \in DOMAIN self._cached_state
        THEN [err |-> "none", ret |-> SharedMap(self._cached_state[label_repr]),
              self |-> self]
        ELSE IF config.preprocess = << >>
        THEN [err |-> "none", ret |-> SharedMap(<< >>), self |-> self]
        ELSE
        CHOOSE got \in
          {LET registered == [self EXCEPT
                                !.registered = @ \o RegisterAll(reg.infos, 1)]
               started == IF start
                          THEN [registered EXCEPT !._manager = TRUE,
                                                  !.starts = @ + 1]
                          ELSE self
           IN  IF start /\ reg.err # "none"
               THEN [err |-> reg.err, ret |-> NoneV, self |-> registered]
               ELSE IF gen.err # "none"
               THEN [err |-> gen.err, ret |-> NoneV, self |-> started]
               ELSE CHOOSE ended \in
                      {[err |-> "none",
                        ret |-> SharedMap(made.shared_state),
                        self |-> [started EXCEPT
                           !._all_state = made.all_state,
                           !._cached_state =
                              [x \in DOMAIN @ \cup {label_repr} |->
                                 IF x = label_repr THEN made.shared_state
                                 ELSE @[x]]]] :
                       made \in
                         {CreateInstances(gen.infos, 1, process_type,
                              started._manager,
                              [all_state |-> started._all_state,
                               shared_state |-> << >>])}} :
                      TRUE :
           reg \in {operator_info_generator(config.preprocess, process_type,
                        override_label, self._preprocess_exit_step, FALSE)},
           gen \in {operator_info_generator(config.preprocess, process_type,
                        override_label, self._preprocess_exit_step, TRUE)}} :
          TRUE

\* SharedState(config, process_type, num_workers=...): the constructor calls
\* get() to cache the default shared state.
SharedState(config, process_type, preprocess_exit_step, num_workers) ==
    SharedState_get(NewSharedState(preprocess_exit_step), config, process_type,
                    num_workers, NoLabel, <<"none">>)

(***************************************************************************)
(* Processor.process.                                                      *)
(***************************************************************************)
\* The longest loader sequence modelled.
MaxBatches == 5

\* The worker counts modelled: inline, one worker, two workers (a loader of
\* MaxBatches batches is longer than twice the largest).
WorkerCounts == {0, 1, 2}

\* A cached pipeline is None or <<"p", inst, pipeline>>, inst the identity of
\* the Pipeline object.  An identity is unique among the objects alive at the
\* same time only: a process that builds a pipeline while it holds one gives
\* it an identity other than that of the one it holds, so two identities do.
PipelineObj(inst, p) == <<"p", inst, p>>

PipelineIds == {"p0", "p1"}

\* The identity of a Pipeline built while cached is held.
FreshId(cached) ==
    IF ~IsNone(cached) /\ cached[2] = "p0" THEN "p1" ELSE "p0"

NoError == [kind |-> "none", worker |-> "", file |-> NoneV, cause |-> ""]

\* multiprocessing.current_process().name in worker w
WorkerName(w) == "ForkPoolWorker-" \o ToString(w)

_get_corpus_name(tu_batch) == tu_batch.meta.base_name

\* The value _process_batch returns for a batch: the exported outputs of the
\* batch id, processed by a pipeline of the given label.
Outputs(id, label) == <<"o", [id |-> id, label |-> label]>>

\* _process_batch with the test of the label dropped: a pipeline is built for
\* every batch.
_process_batch_rebuilding(cached, tu_batch, config, process_type, preprocess_exit_step, override_label, shared_state, raises) ==
    LET built == Pipeline(config, process_type, preprocess_exit_step,
                          override_label, shared_state)
    IN  IF built.err # "none"
        THEN [err |-> built.err, outputs |-> NoneV, pipeline |-> cached]
        ELSE IF raises
        THEN [err |-> "operator", outputs |-> NoneV, pipeline |-> cached]
        ELSE [err |-> "none",
              outputs |-> Outputs(tu_batch.id, override_label),
              pipeline |-> PipelineObj(FreshId(cached), built.pipeline)]

\* _process_batch that keeps the pipeline it is given whatever its label.
_process_batch_keeping(cached, tu_batch, config, process_type, preprocess_exit_step, override_label, shared_state, raises) ==
    LET rebuild == IsNone(cached)
    IN  IF ~rebuild
        THEN IF raises
             THEN [err |-> "operator", outputs |-> NoneV, pipeline |-> cached]
             ELSE [err |-> "none",
                   outputs |-> Outputs(tu_batch.id, cached[3].override_label),
                   pipeline |-> cached]
        ELSE CHOOSE r \in
               {IF built.err # "none"
                THEN [err |-> built.err, outputs |-> NoneV, pipeline |-> cached]
                ELSE IF raises
                THEN [err |-> "operator", outputs |-> NoneV, pipeline |-> cached]
                ELSE [err |-> "none",
                      outputs |-> Outputs(tu_batch.id, built.pipeline.override_label),
                      pipeline |-> PipelineObj(FreshId(cached), built.pipeline)] :
                built \in {Pipeline(config, process_type, preprocess_exit_step,
                                    override_label, shared_state)}} :
               TRUE

\* _process_batch: rebuilds the pipeline if required and processes the batch.
\* raises tells whether an operator raises on this batch.  The result is
\* [err, outputs, pipeline], outputs and pipeline being returned when
\* err = "none".
_process_batch(cached, tu_batch, config, process_type, preprocess_exit_step, override_label, shared_state, raises) ==
    LET rebuild == IsNone(cached) \/ override_label # cached[3].override_label
    IN  IF ~rebuild
        THEN IF raises
             THEN [err |-> "operator", outputs |-> NoneV, pipeline |-> cached]
             ELSE [err |-> "none",
                   outputs |-> Outputs(tu_batch.id, cached[3].override_label),
                   pipeline |-> cached]
        ELSE CHOOSE r \in
               {IF built.err # "none"
                THEN [err |-> built.err, outputs |-> NoneV, pipeline |-> cached]
                ELSE IF raises
                THEN [err |-> "operator", outputs |-> NoneV, pipeline |-> cached]
                ELSE [err |-> "none",
                      outputs |-> Outputs(tu_batch.id, built.pipeline.override_label),
                      pipeline |-> PipelineObj(FreshId(cached), built.pipeline)] :
                built \in {Pipeline(config, process_type, preprocess_exit_step,
                                    override_label, shared_state)}} :
               TRUE

\* _process_batch_on_worker with an error message that leaves the corpus name
\* out.
_process_batch_on_worker_unnamed(w, cached, tu_batch, config, process_type, preprocess_exit_step, override_label, shared_state, raises) ==
    LET r == _process_batch(cached, tu_batch, config, process_type,
                            preprocess_exit_step, override_label, shared_state,
                            raises)
    IN  IF r.err # "none"
        THEN [err |-> [kind |-> "RuntimeError", worker |-> WorkerName(w),
                       file |-> NoneV, cause |-> r.err],
              outputs |-> NoneV,
              worker_pipeline |-> cached]
        ELSE [err |-> NoError, outputs |-> r.outputs, worker_pipeline |-> r.pipeline]

\* _process_batch_on_worker in worker w: [err, outputs, worker_pipeline], err
\* the RuntimeError raised or NoError.
_process_batch_on_worker(w, cached, tu_batch, config, process_type, preprocess_exit_step, override_label, shared_state, raises) ==
    LET corpus_name == _get_corpus_name(tu_batch)
    IN  CHOOSE ret \in
          {IF r.err # "none"
           THEN [err |-> [kind |-> "RuntimeError",
                          worker |-> WorkerName(w),
                          file |-> IF Truthy(corpus_name) THEN corpus_name
                                   ELSE NoneV,
                          cause |-> r.err],
                 outputs |-> NoneV,
                 worker_pipeline |-> cached]
           ELSE [err |-> NoError, outputs |-> r.outputs,
                 worker_pipeline |-> r.pipeline] :
           r \in {_process_batch(cached, tu_batch, config, process_type,
                                 preprocess_exit_step, override_label,
                                 shared_state, raises)}} :
          TRUE

\* The label values a loader puts in the metadata of a batch.
RawNone == [kind |-> "none", items |-> << >>]

RawStr(x) == [kind |-> "str", items |-> <<x>>]

RawList(l) == [kind |-> "list", items |-> l]

\* The metadata of the batches a loader yields: no label and no corpus name;
\* the label A, as a string or as a list, and a corpus name; the labels A and
\* B, for which the configuration below has conflicting overrides.
LoaderMeta ==
    {[label |-> RawNone, base_name |-> NoneV],
     [label |-> RawStr("A"), base_name |-> Str("corpus")],
     [label |-> RawList(<<"A">>), base_name |-> Str("corpus")],
     [label |-> RawList(<<"A", "B">>), base_name |-> Str("corpus")]}

\* The configuration of the processors modelled: a tokenizer with one
\* override per label, an aligner whose model depends on the label, a filter.
TokEntry ==
    [op |-> Str("tokenization"),
     source |-> Dict([mode |-> Str("conservative")]),
     overrides |-> Dict([A |-> Dict([source |-> Dict([mode |-> Str("aggressive")])]),
                         B |-> Dict([disabled |-> Bool(TRUE)])])]

AlignEntry ==
    [op |-> Str("alignment"),
     model |-> Str("m1"),
     overrides |-> Dict([A |-> Dict([model |-> Str("mA")])])]

FilterEntry == [op |-> Str("length_filter")]

NoVocabulary == [source |-> NoneV, target |-> NoneV]

ProcConfig ==
    [source |-> "en", target |-> "fr",
     preprocess |-> <<TokEntry, AlignEntry, FilterEntry>>,
     postprocess |-> << >>,
     vocabulary |-> NoVocabulary]

Workers == 1..processor._num_workers

Terminated == pc \in {"done", "aborted"}

\* Processor.__init__ and the call of process(): the processor runs inline
\* (no worker) or with a pool; inline, the caller may pass the default
\* pipeline it has built.
ProcInit ==
    /\ \E n \in WorkerCounts :
         processor = [_num_workers |-> n, _config |-> ProcConfig,
                      _pipeline_type |-> TRAINING]
    /\ sstate = SharedState(processor._config, processor._pipeline_type, NoneV,
                            processor._num_workers).self
    /\ pc = "loop"
    /\ exit_step = NoneV
    /\ pipeline \in
         {NoneV} \cup
         (IF processor._num_workers = 0 /\ IsNone(exit_step)
          THEN {PipelineObj("p0",
                    Pipeline(processor._config, processor._pipeline_type,
                             NoneV, NoLabel,
                             SharedMap(sstate._cached_state[<<"none">>])).pipeline)}
          ELSE {})
    /\ emitted = 0
    /\ current = NoneV
    /\ results = << >>
    /\ task_queue = << >>
    /\ running = [w \in Workers |-> NoneV]
    /\ worker_pipeline = [w \in Workers |-> NoneV]
    /\ consumed = << >>
    /\ error = NoError
    /\ failed = {}

\* An AsyncResult handle: the batch it stands for and, once a worker has
\* finished it, the outputs or the exception.
Handle(id) == [id |-> id, ready |-> FALSE, err |-> NoError, outputs |-> NoneV]

\* consumer(results.pop().get()): the newest handle instead of the oldest.
PopNewestAndConsume(next_pc) ==
    LET last == results[Len(results)]
    IN  /\ results' = SubSeq(results, 1, Len(results) - 1)
        /\ IF last.err.kind = "none"
           THEN /\ consumed' = Append(consumed, last.id)
                /\ pc' = next_pc
                /\ error' = error
           ELSE /\ consumed' = consumed
                /\ pc' = "aborted"
                /\ error' = last.err

\* consumer(...) called with the failed batch before the exception ends
\* process().
PopAndConsumeDeliveringFailed(next_pc) ==
    LET head == results[1]
    IN  /\ results' = Tail(results)
        /\ consumed' = Append(consumed, head.id)
        /\ IF head.err.kind = "none"
           THEN /\ pc' = next_pc
                /\ error' = error
           ELSE /\ pc' = "aborted"
                /\ error' = head.err

\* consumer(results.popleft().get()): get() returns the outputs or re-raises
\* the exception of the worker, which ends process().
PopAndConsume(next_pc) ==
    LET head == results[1]
    IN  /\ results' = Tail(results)
        /\ IF head.err.kind = "none"
           THEN /\ consumed' = Append(consumed, head.outputs[2].id)
                /\ pc' = next_pc
                /\ error' = error
           ELSE /\ consumed' = consumed
                /\ pc' = "aborted"
                /\ error' = head.err

\* The test of the queue size, one off.
QueueFullOffByOne(len, num_workers) == len = 2 * num_workers + 1

\* "len(results) == 2 * self._num_workers"
QueueFull(len, num_workers) == len = 2 * num_workers

\* The task of a batch: the arguments of _process_batch for it.
Task(tu_batch, override_label, shared_state) ==
    [tu_batch |-> tu_batch,
     override_label |-> override_label,
     shared_state |-> shared_state]

\* One pass of "for tu_batch in loader()" in parallel mode, up to the point
\* where the orchestrator may block: the batch is labelled, its shared state
\* fetched and the batch submitted to the pool.
Submit ==
    /\ processor._num_workers > 0
    /\ pc = "loop"
    /\ emitted < MaxBatches
    /\ emitted' = emitted + 1
    /\ UNCHANGED <<processor, exit_step, pipeline, current, running,
                   worker_pipeline, consumed, failed>>
    /\ \E meta \in LoaderMeta :
         LET tu_batch == [id |-> emitted, meta |-> [base_name |-> meta.base_name]]
             override_label == _get_corpus_label(meta.label)
         IN  \E label_repr \in ReprOf(override_label) :
               \E got \in {SharedState_get(sstate, processor._config,
                              processor._pipeline_type, processor._num_workers,
                              override_label, label_repr)} :
                   /\ sstate' = got.self
                   /\ IF got.err # "none"
                      THEN /\ pc' = "aborted"
                           /\ error' = [kind |-> "RuntimeError", worker |-> "",
                                        file |-> NoneV, cause |-> got.err]
                           /\ UNCHANGED <<results, task_queue>>
                      ELSE /\ results' = Append(results, Handle(emitted))
                           /\ task_queue' = Append(task_queue,
                                  Task(tu_batch, override_label, got.ret))
                           /\ pc' = IF QueueFull(Len(results'),
                                                 processor._num_workers)
                                    THEN "wait" ELSE "drain"
                           /\ error' = error

\* The loader is exhausted and process() returns without the final loop.
LoaderExhaustedNoDrain ==
    /\ processor._num_workers > 0
    /\ pc = "loop"
    /\ pc' = "done"
    /\ UNCHANGED <<processor, sstate, exit_step, pipeline, emitted, current,
                   results, task_queue, running, worker_pipeline, consumed,
                   error, failed>>

\* The loader is exhausted: the loop ends.
LoaderExhausted ==
    /\ processor._num_workers > 0
    /\ pc = "loop"
    /\ pc' = "final"
    /\ UNCHANGED <<processor, sstate, exit_step, pipeline, emitted, current,
                   results, task_queue, running, worker_pipeline, consumed,
                   error, failed>>

\* A wait() that returns at once.
WaitOldestReturningAtOnce ==
    /\ pc = "wait"
    /\ pc' = "drain"
    /\ UNCHANGED <<processor, sstate, exit_step, pipeline, emitted, current,
                   results, task_queue, running, worker_pipeline, consumed,
                   error, failed>>

\* results[0].wait() returns once the oldest result is ready.
WaitOldest ==
    /\ pc = "wait"
    /\ results[1].ready
    /\ pc' = "drain"
    /\ UNCHANGED <<processor, sstate, exit_step, pipeline, emitted, current,
                   results, task_queue, running, worker_pipeline, consumed,
                   error, failed>>

\* A loop that drops the results that are ready instead of handing them to
\* the consumer.
DrainDropping ==
    /\ pc = "drain"
    /\ IF Len(results) > 0 /\ results[1].ready
       THEN /\ results' = Tail(results)
            /\ UNCHANGED <<pc, consumed, error>>
       ELSE /\ pc' = "loop"
            /\ UNCHANGED <<results, consumed, error>>
    /\ UNCHANGED <<processor, sstate, exit_step, pipeline, emitted, current,
                   task_queue, running, worker_pipeline, failed>>

\* One test of "while len(results) > 0 and results[0].ready()" and, when it
\* holds, one pass of the loop.
Drain ==
    /\ pc = "drain"
    /\ IF Len(results) > 0 /\ results[1].ready
       THEN PopAndConsume("drain")
       ELSE /\ pc' = "loop"
            /\ UNCHANGED <<results, consumed, error>>
    /\ UNCHANGED <<processor, sstate, exit_step, pipeline, emitted, current,
                   task_queue, running, worker_pipeline, failed>>

\* One test of the final "while len(results) > 0" and, when it holds, one
\* pass of the loop: get() blocks until the oldest result is ready.  When the
\* queue is empty process() returns and the pool is terminated.
DrainFinal ==
    /\ pc = "final"
    /\ IF Len(results) > 0
       THEN /\ results[1].ready
            /\ PopAndConsume("final")
       ELSE /\ pc' = "done"
            /\ UNCHANGED <<results, consumed, error>>
    /\ UNCHANGED <<processor, sstate, exit_step, pipeline, emitted, current,
                   task_queue, running, worker_pipeline, failed>>

\* An idle worker takes the oldest task of the pool's queue.
WorkerTake(w) ==
    /\ ~Terminated
    /\ IsNone(running[w])
    /\ task_queue # << >>
    /\ running' = [running EXCEPT ![w] = <<"t", Head(task_queue)>>]
    /\ task_queue' = Tail(task_queue)
    /\ UNCHANGED <<processor, sstate, pc, exit_step, pipeline, emitted, current,
                   results, worker_pipeline, consumed, error, failed>>

\* Worker w runs _process_batch_on_worker on its task and the result, or the
\* exception, is stored in the task's AsyncResult.
WorkerFinish(w) ==
    /\ ~Terminated
    /\ ~IsNone(running[w])
    /\ running' = [running EXCEPT ![w] = NoneV]
    /\ UNCHANGED <<processor, sstate, pc, exit_step, pipeline, emitted, current,
                   task_queue, consumed, error>>
    /\ \E raises \in BOOLEAN :
         LET task == running[w][2]
         IN  \E r \in {_process_batch_on_worker(w, worker_pipeline[w],
                      task.tu_batch, processor._config, processor._pipeline_type,
                      exit_step, task.override_label, task.shared_state, raises)} :
             /\ worker_pipeline' = [worker_pipeline EXCEPT ![w] = r.worker_pipeline]
             /\ results' = [i \in DOMAIN results |->
                              IF results[i].id = task.tu_batch.id
                              THEN [results[i] EXCEPT !.ready = TRUE,
                                                      !.err = r.err,
                                                      !.outputs = r.outputs]
                              ELSE results[i]]
             /\ failed' = IF r.err.kind = "none" THEN failed
                          ELSE failed \cup {task.tu_batch.id}

\* Inline mode, "for tu_batch in loader()": the loader yields a batch, the
\* batch is labelled and its shared state fetched.
InlinePull ==
    /\ processor._num_workers = 0
    /\ pc = "loop"
    /\ emitted < MaxBatches
    /\ emitted' = emitted + 1
    /\ UNCHANGED <<processor, exit_step, pipeline, results, task_queue, running,
                   worker_pipeline, consumed, failed>>
    /\ \E meta \in LoaderMeta :
         LET tu_batch == [id |-> emitted, meta |-> [base_name |-> meta.base_name]]
             override_label == _get_corpus_label(meta.label)
         IN  \E label_repr \in ReprOf(override_label) :
               \E got \in {SharedState_get(sstate, processor._config,
                              processor._pipeline_type, processor._num_workers,
                              override_label, label_repr)} :
                   /\ sstate' = got.self
                   /\ IF got.err # "none"
                      THEN /\ pc' = "aborted"
                           /\ error' = [kind |-> "RuntimeError", worker |-> "",
                                        file |-> NoneV, cause |-> got.err]
                           /\ current' = current
                      ELSE /\ pc' = "process"
                           /\ current' = <<"t", Task(tu_batch, override_label, got.ret)>>
                           /\ error' = error

\* Inline mode, the rest of the loop body: _process_batch on the batch, then
\* the consumer; an exception ends process().
InlineProcess ==
    /\ pc = "process"
    /\ current' = NoneV
    /\ UNCHANGED <<processor, sstate, exit_step, emitted, results, task_queue,
                   running, worker_pipeline>>
    /\ \E raises \in BOOLEAN :
         LET task == current[2]
         IN  \E r \in {_process_batch(pipeline, task.tu_batch, processor._config,
                      processor._pipeline_type, exit_step, task.override_label,
                      task.shared_state, raises)} :
             IF r.err # "none"
             THEN /\ pc' = "aborted"
                  /\ error' = [kind |-> "Exception", worker |-> "",
                               file |-> NoneV, cause |-> r.err]
                  /\ failed' = failed \cup {task.tu_batch.id}
                  /\ UNCHANGED <<pipeline, consumed>>
             ELSE /\ pc' = "loop"
                  /\ pipeline' = r.pipeline
                  /\ consumed' = Append(consumed, r.outputs[2].id)
                  /\ UNCHANGED <<error, failed>>

\* The loader is exhausted in inline mode: process() returns.
InlineDone ==
    /\ processor._num_workers = 0
    /\ pc = "loop"
    /\ pc' = "done"
    /\ UNCHANGED <<processor, sstate, exit_step, pipeline, emitted, current,
                   results, task_queue, running, worker_pipeline, consumed,
                   error, failed>>

ProcNext ==
    \/ Submit
    \/ LoaderExhausted
    \/ WaitOldest
    \/ Drain
    \/ DrainFinal
    \/ \E w \in Workers : WorkerTake(w)
    \/ \E w \in Workers : WorkerFinish(w)
    \/ InlinePull
    \/ InlineProcess
    \/ InlineDone

\* The parts of the model that stand still while a processor runs.
FrameIdle == heap = NoneV /\ frame_in = NoneV /\ frame_out = NoneV

InfIdle == inference = NoneV /\ threads = NoneV /\ allocated = NoneV

RunIdle ==
    /\ run_in = NoneV /\ run_pc = NoneV /\ run_i = NoneV /\ run_batch = NoneV
    /\ run_passed = NoneV /\ run_final = NoneV /\ run_err = NoneV

GenIdle == gen_in = NoneV /\ gen_out = NoneV

RegIdle ==
    /\ registry = NoneV /\ decorators = NoneV /\ reg_err = NoneV
    /\ first_bound = NoneV

ProcIdle ==
    /\ build_in = NoneV /\ built_for = NoneV
    /\ params_in = NoneV /\ params_out = NoneV
    /\ shared_args = NoneV /\ cache = NoneV /\ gets = NoneV
    /\ call_op = NoneV /\ call_batch = NoneV /\ call_err = NoneV
    /\ call_count = NoneV
    /\ RunIdle /\ GenIdle /\ RegIdle /\ FrameIdle /\ InfIdle

Init == ProcInit /\ ProcIdle

Next ==
    ProcNext /\ UNCHANGED <<build_vars, params_vars, shared_vars, call_vars, more_vars>>

Spec == Init /\ [][Next]_vars

\* The orchestrator and the worker processes are all scheduled: the loop of
\* process() goes on while it can, and so does every worker.
AllWorkers == UNION {1..n : n \in WorkerCounts}

Orchestrator ==
    /\ UNCHANGED <<build_vars, params_vars, shared_vars, call_vars, more_vars>>
    /\ \/ Submit
       \/ LoaderExhausted
       \/ WaitOldest
       \/ Drain
       \/ DrainFinal
       \/ InlinePull
       \/ InlineProcess
       \/ InlineDone

WorkerStep(w) ==
    /\ w \in Workers
    /\ UNCHANGED <<build_vars, params_vars, shared_vars, call_vars, more_vars>>
    /\ WorkerTake(w) \/ WorkerFinish(w)

LiveSpec ==
    /\ Init
    /\ [][Next]_vars
    /\ WF_vars(Orchestrator)
    /\ \A w \in AllWorkers : WF_vars(WorkerStep(w))

(***************************************************************************)
(* Building pipelines: Pipeline() called on one configuration for the      *)
(* process types, with the same exit step and label.                       *)
(***************************************************************************)
\* The longest forward list and the longest postprocess list modelled.
MaxOps == 2

MaxPostOps == 2

SeqsUpTo(S, n) == UNION {[1..k -> S] : k \in 0..n}

\* The entries of the lists: a tokenizer with its default name, a tokenizer
\* with an explicit name, a filter, a tokenizer that label A disables, an
\* entry of an unregistered type.
BuildEntries ==
    {[op |-> Str("tokenization")],
     [op |-> Str("tokenization"), name |-> Str("tok")],
     [op |-> Str("length_filter")],
     [op |-> Str("tokenization"),
      overrides |-> Dict([A |-> Dict([disabled |-> Bool(TRUE)])])],
     [op |-> Str("unknown")]}

BuildConfigs ==
    {[source |-> "en", target |-> "fr", preprocess |-> pre,
      postprocess |-> post, vocabulary |-> NoVocabulary] :
        pre \in SeqsUpTo(BuildEntries, MaxOps),
        post \in SeqsUpTo(BuildEntries, MaxPostOps)}

BuildLabels == {NoLabel, [kind |-> "set", elems |-> {"A"}]}

BuildIdle ==
    /\ processor = NoneV /\ sstate = NoneV /\ pc = NoneV /\ exit_step = NoneV
    /\ pipeline = NoneV /\ emitted = NoneV /\ current = NoneV
    /\ results = NoneV /\ task_queue = NoneV /\ running = NoneV
    /\ worker_pipeline = NoneV /\ consumed = NoneV /\ error = NoneV
    /\ failed = NoneV
    /\ params_in = NoneV /\ params_out = NoneV
    /\ shared_args = NoneV /\ cache = NoneV /\ gets = NoneV
    /\ call_op = NoneV /\ call_batch = NoneV /\ call_err = NoneV
    /\ call_count = NoneV
    /\ RunIdle /\ GenIdle /\ RegIdle /\ FrameIdle /\ InfIdle

BuildInit ==
    /\ build_in \in [config : BuildConfigs,
                     exit_step : {NoneV, Step(0)},
                     override_label : BuildLabels]
    /\ built_for = << >>
    /\ BuildIdle

\* Pipeline(config, process_type, exit_step, label) for a process type not
\* built yet.
Build(process_type) ==
    /\ process_type \notin DOMAIN built_for
    /\ built_for' = [t \in DOMAIN built_for \cup {process_type} |->
                       IF t = process_type
                       THEN Pipeline(build_in.config, process_type,
                                     build_in.exit_step,
                                     build_in.override_label, NoneV)
                       ELSE built_for[t]]
    /\ UNCHANGED <<build_in, proc_vars, params_vars, shared_vars, call_vars, more_vars>>

BuildNext == \E process_type \in ProcessType : Build(process_type)

SpecBuild == BuildInit /\ [][BuildNext]_vars

(***************************************************************************)
(* get_operator_params called on an entry and a label.                     *)
(***************************************************************************)
cfgA == [mode |-> Str("aggressive")]

cfgB == [source |-> Dict([bpe |-> Str("codes")])]

\* The parameters of the entries: scalars only, or with a nested mapping.
ParamBases ==
    {[op |-> Str("tokenization"), mode |-> Str("conservative")],
     [op |-> Str("tokenization"), mode |-> Str("conservative"),
      source |-> Dict([mode |-> Str("none"), joiner |-> Bool(TRUE)])]}

\* The override maps: {"A": cfgA}, {"A": cfgA, "B": cfgB}, and an empty one.
ParamOverrides ==
    {Dict([A |-> Dict(cfgA)]),
     Dict([A |-> Dict(cfgA), B |-> Dict(cfgB)]),
     Dict(EmptyDict)}

\* The entries: with an override map, or without the key.
ParamEntries ==
    ParamBases \cup
    {[k \in DOMAIN base \cup {"overrides"} |->
        IF k = "overrides" THEN o ELSE base[k]] :
        base \in ParamBases, o \in ParamOverrides}

\* The labels: absent, and the sets over A, B and a label C no map holds.
ParamLabels ==
    {NoLabel} \cup {[kind |-> "set", elems |-> S] : S \in SUBSET {"A", "B", "C"}}

ParamsIdle ==
    /\ processor = NoneV /\ sstate = NoneV /\ pc = NoneV /\ exit_step = NoneV
    /\ pipeline = NoneV /\ emitted = NoneV /\ current = NoneV
    /\ results = NoneV /\ task_queue = NoneV /\ running = NoneV
    /\ worker_pipeline = NoneV /\ consumed = NoneV /\ error = NoneV
    /\ failed = NoneV
    /\ build_in = NoneV /\ built_for = NoneV
    /\ shared_args = NoneV /\ cache = NoneV /\ gets = NoneV
    /\ call_op = NoneV /\ call_batch = NoneV /\ call_err = NoneV
    /\ call_count = NoneV
    /\ RunIdle /\ GenIdle /\ RegIdle /\ FrameIdle /\ InfIdle

ParamsInit ==
    /\ params_in \in [config : ParamEntries, label : ParamLabels]
    /\ params_out = NoneV
    /\ ParamsIdle

\* The call: the result is <<"r", [err, params]>>.
Resolve ==
    /\ IsNone(params_out)
    /\ params_out' = <<"r", get_operator_params(
                                params_in.config,
                                get_operator_type(params_in.config).op,
                                params_in.label)>>
    /\ UNCHANGED <<params_in, proc_vars, build_vars, shared_vars, call_vars, more_vars>>

ParamsNext == Resolve

SpecParams == ParamsInit /\ [][ParamsNext]_vars

(***************************************************************************)
(* A SharedState and the calls of get() made on it.                        *)
(***************************************************************************)
\* The longest sequence of calls of get() modelled.
MaxGets == 3

\* A configuration without operators.
EmptyConfig ==
    [source |-> "en", target |-> "fr", preprocess |-> << >>,
     postprocess |-> << >>, vocabulary |-> NoVocabulary]

\* A configuration none of whose operators declares a shared class, and one
\* with two aligners, which declare the same shared class.
NoSharedConfig == [ProcConfig EXCEPT !.preprocess = <<TokEntry, FilterEntry>>]

TwoAlignConfig == [ProcConfig EXCEPT !.preprocess = <<AlignEntry, TokEntry, AlignEntry>>]

SharedConfigs == {ProcConfig, EmptyConfig, NoSharedConfig, TwoAlignConfig}

\* The labels passed to get(): none; A, for which the aligner has another
\* model; B, for which it has not; A with a label no override holds; A and B,
\* whose overrides of the tokenizer conflict; a mapping.
SharedLabels ==
    {NoLabel,
     [kind |-> "set", elems |-> {"A"}],
     [kind |-> "set", elems |-> {"B"}],
     [kind |-> "set", elems |-> {"A", "C"}],
     [kind |-> "set", elems |-> {"A", "B"}],
     [kind |-> "dict", elems |-> {"A"}]}

SharedIdle ==
    /\ processor = NoneV /\ sstate = NoneV /\ pc = NoneV /\ exit_step = NoneV
    /\ pipeline = NoneV /\ emitted = NoneV /\ current = NoneV
    /\ results = NoneV /\ task_queue = NoneV /\ running = NoneV
    /\ worker_pipeline = NoneV /\ consumed = NoneV /\ error = NoneV
    /\ failed = NoneV
    /\ build_in = NoneV /\ built_for = NoneV
    /\ params_in = NoneV /\ params_out = NoneV
    /\ call_op = NoneV /\ call_batch = NoneV /\ call_err = NoneV
    /\ call_count = NoneV
    /\ RunIdle /\ GenIdle /\ RegIdle /\ FrameIdle /\ InfIdle

\* SharedState(config, TRAINING, None, num_workers)
SharedInit ==
    /\ shared_args \in [config : SharedConfigs, num_workers : {0, 1}]
    /\ cache = SharedState(shared_args.config, TRAINING, NoneV,
                           shared_args.num_workers).self
    /\ gets = << >>
    /\ SharedIdle

\* cache.get(override_label)
Get ==
    /\ Len(gets) < MaxGets
    /\ \E override_label \in SharedLabels :
         \E label_repr \in ReprOf(override_label) :
           \E got \in {SharedState_get(cache, shared_args.config, TRAINING,
                                       shared_args.num_workers,
                                       override_label, label_repr)} :
             /\ cache' = got.self
             /\ gets' = Append(gets, [label |-> override_label,
                                      err |-> got.err,
                                      ret |-> got.ret])
    /\ UNCHANGED <<shared_args, proc_vars, build_vars, params_vars, call_vars, more_vars>>

SharedNext == Get

SpecShared == SharedInit /\ [][SharedNext]_vars

(***************************************************************************)
(* Filter.__call__.  A translation unit is a number; a criterion is given  *)
(* by the set of units it holds for; the metadata of a batch is a mapping  *)
(* in which filter_summary, when present, maps operator names to counts.   *)
(***************************************************************************)
\* The size of the longest batch modelled, and the number of calls.
MaxUnits == 3

MaxCalls == 2

Units == {1, 2, 3}

\* Filter.__init__: the criteria given, none by default.
CriteriaLists == {<< >>, <<{1}>>, <<{1}, {2, 3}>>, <<{2}, {1, 2}>>}

\* The metadata of a batch: without filter_summary, or with counts for no
\* operator, for the filter f, for another operator.
Metas ==
    {<< >>,
     [filter_summary |-> << >>],
     [filter_summary |-> [f |-> 2]],
     [filter_summary |-> [other |-> 1]]}

\* Filter._preprocess_tu: nothing if a criterion holds for tu, else tu.
Filter_preprocess_tu(self, tu) ==
    IF \E c \in DOMAIN self.criteria : tu \in self.criteria[c] THEN << >>
    ELSE <<tu>>

\* TUOperator._preprocess: the lists _preprocess_tu returns, chained.
RECURSIVE Chain(_, _)
Chain(self, tu_list) ==
    IF tu_list = << >> THEN << >>
    ELSE Filter_preprocess_tu(self, Head(tu_list)) \o Chain(self, Tail(tu_list))

TUOperator_preprocess(self, tu_batch) ==
    [tu_list |-> Chain(self, tu_batch.tu_list), meta |-> tu_batch.meta]

\* Operator.__call__: _postprocess in POSTPROCESS (not implemented by a
\* filter), _preprocess otherwise.  The result is [err, tu_batch].
Operator_call(self, tu_batch) ==
    IF self.process_type = POSTPROCESS
    THEN [err |-> "NotImplementedError", tu_batch |-> tu_batch]
    ELSE [err |-> "none", tu_batch |-> TUOperator_preprocess(self, tu_batch)]

\* dict.setdefault("filter_summary", defaultdict(int))
WithSummary(meta) ==
    IF "filter_summary" \in DOMAIN meta THEN meta
    ELSE [k \in DOMAIN meta \cup {"filter_summary"} |->
            IF k = "filter_summary" THEN << >> ELSE meta[k]]

\* filter_summary[name] += n, on a defaultdict(int)
AddCount(filter_summary, name, n) ==
    [k \in DOMAIN filter_summary \cup {name} |->
        IF k = name
        THEN (IF name \in DOMAIN filter_summary THEN filter_summary[name]
              ELSE 0) + n
        ELSE filter_summary[k]]

\* Filter.__call__ counting the units kept instead of the units dropped.
Filter_call_counting_kept(self, tu_batch) ==
    LET before == Len(tu_batch.tu_list)
        called == Operator_call(self, tu_batch)
        after == Len(called.tu_batch.tu_list)
        meta == WithSummary(called.tu_batch.meta)
    IN  IF called.err # "none" THEN called
        ELSE [err |-> "none",
              tu_batch |->
                [tu_list |-> called.tu_batch.tu_list,
                 meta |-> [meta EXCEPT !.filter_summary =
                              AddCount(@, self.name, after)]]]

\* Filter.__call__
Filter_call(self, tu_batch) ==
    LET before == Len(tu_batch.tu_list)
        called == Operator_call(self, tu_batch)
        after == Len(called.tu_batch.tu_list)
        meta == WithSummary(called.tu_batch.meta)
    IN  IF called.err # "none" THEN called
        ELSE [err |-> "none",
              tu_batch |->
                [tu_list |-> called.tu_batch.tu_list,
                 meta |-> [meta EXCEPT !.filter_summary =
                              AddCount(@, self.name, before - after)]]]

CallIdle ==
    /\ processor = NoneV /\ sstate = NoneV /\ pc = NoneV /\ exit_step = NoneV
    /\ pipeline = NoneV /\ emitted = NoneV /\ current = NoneV
    /\ results = NoneV /\ task_queue = NoneV /\ running = NoneV
    /\ worker_pipeline = NoneV /\ consumed = NoneV /\ error = NoneV
    /\ failed = NoneV
    /\ build_in = NoneV /\ built_for = NoneV
    /\ params_in = NoneV /\ params_out = NoneV
    /\ shared_args = NoneV /\ cache = NoneV /\ gets = NoneV
    /\ RunIdle /\ GenIdle /\ RegIdle /\ FrameIdle /\ InfIdle

CallInit ==
    /\ call_op \in [name : {"f", "g"},
                    criteria : CriteriaLists,
                    process_type : {TRAINING, POSTPROCESS}]
    /\ call_batch \in [tu_list : SeqsUpTo(Units, MaxUnits), meta : Metas]
    /\ call_err = "none"
    /\ call_count = 0
    /\ CallIdle

\* The filter is applied to the batch.
FilterCall ==
    /\ call_err = "none"
    /\ call_count < MaxCalls
    /\ call_count' = call_count + 1
    /\ \E r \in {Filter_call(call_op, call_batch)} :
         /\ call_err' = r.err
         /\ call_batch' = r.tu_batch
    /\ UNCHANGED <<call_op, proc_vars, build_vars, params_vars, shared_vars, more_vars>>

CallNext == FilterCall

SpecCall == CallInit /\ [][CallNext]_vars

(***************************************************************************)
(* Pipeline.__call__ on a batch, one step per operator of the loop and per *)
(* TU of the finalization loop.  A TU is its identity; what an operator    *)
(* writes into a TU is not modelled, the TUs it keeps are.                 *)
(***************************************************************************)
OldIdle ==
    /\ processor = NoneV /\ sstate = NoneV /\ pc = NoneV /\ exit_step = NoneV
    /\ pipeline = NoneV /\ emitted = NoneV /\ current = NoneV
    /\ results = NoneV /\ task_queue = NoneV /\ running = NoneV
    /\ worker_pipeline = NoneV /\ consumed = NoneV /\ error = NoneV
    /\ failed = NoneV
    /\ build_in = NoneV /\ built_for = NoneV
    /\ params_in = NoneV /\ params_out = NoneV
    /\ shared_args = NoneV /\ cache = NoneV /\ gets = NoneV
    /\ call_op = NoneV /\ call_batch = NoneV /\ call_err = NoneV
    /\ call_count = NoneV

old_vars == <<proc_vars, build_vars, params_vars, shared_vars, call_vars>>

\* The criteria a length filter is built with: TU 1 is out of bounds.
LengthFilterCriteria == <<{1}>>

\* The configurations of the pipelines called: a tokenizer and a filter,
\* the filter first, two tokenizers under one explicit name, a tokenizer in
\* each list, two tokenizers with default names, two filters.
RunConfigs ==
    {[source |-> "en", target |-> "fr", preprocess |-> pre,
      postprocess |-> post, vocabulary |-> NoVocabulary] :
        pre \in {<<[op |-> Str("tokenization")], [op |-> Str("length_filter")]>>,
                 <<[op |-> Str("length_filter")], [op |-> Str("tokenization")]>>,
                 <<[op |-> Str("tokenization"), name |-> Str("tok")],
                   [op |-> Str("tokenization"), name |-> Str("tok")]>>,
                 <<[op |-> Str("tokenization")], [op |-> Str("tokenization")]>>,
                 <<[op |-> Str("length_filter")], [op |-> Str("length_filter")]>>,
                 << >>},
        post \in {<< >>, <<[op |-> Str("tokenization")]>>}}

RunPipelines ==
    {Pipeline(c, t, NoneV, NoLabel, NoneV).pipeline :
        c \in RunConfigs, t \in ProcessType}

\* The options argument: None, or a mapping from operator names to payloads.
RunOptions ==
    {NoneV,
     Dict(<< >>),
     Dict([tokenization_0 |-> Str("o1")]),
     Dict([tokenization_0 |-> NoneV, length_filter_1 |-> NoneV]),
     Dict([tokenization_0 |-> Str("o1"), length_filter_1 |-> Str("o2")]),
     Dict([length_filter_1 |-> Str("o2")]),
     Dict([tok |-> Str("o3")]),
     Dict([tokenization_1 |-> Str("o4"), length_filter_0 |-> Str("o5")]),
     Dict([nobody |-> Str("o6")])}

\* The batches: lists of distinct TUs.
RunBatches ==
    {[tu_list |-> l, meta |-> << >>] :
        l \in {s \in SeqsUpTo(Units, MaxUnits) :
                 \A i, j \in DOMAIN s : s[i] = s[j] => i = j}}

\* options.get(op.name) if options else None
OpOptions(options, op) ==
    IF Truthy(options) THEN DictGet(options[2], op.name) ELSE NoneV

\* op(tu_batch, **kwargs): a filter is called through Filter.__call__, any
\* other operator keeps every TU.  The result is [err, tu_batch].
Operator_apply(op, tu_batch) ==
    IF op.cls.base = "Filter"
    THEN Filter_call([name |-> op.name, criteria |-> LengthFilterCriteria,
                      process_type |-> op.process_type], tu_batch)
    ELSE [err |-> "none", tu_batch |-> tu_batch]

\* batch_meta['ops_profile'] = ops_profile, the operators timed
WithProfile(meta, names) ==
    [k \in DOMAIN meta \cup {"ops_profile"} |->
        IF k = "ops_profile" THEN names ELSE meta[k]]

RunInit ==
    /\ run_in \in [pipeline : RunPipelines, options : RunOptions]
    /\ run_pc = "ops"
    /\ run_i = 1
    /\ run_batch \in RunBatches
    /\ run_passed = << >>
    /\ run_final = [u \in Units |-> 0]
    /\ run_err = "none"
    /\ OldIdle /\ FrameIdle /\ InfIdle /\ GenIdle /\ RegIdle

\* An iteration that applies the operator before it looks at its options.
RunOpApplyingFirst ==
    /\ run_pc = "ops"
    /\ run_i <= Len(run_in.pipeline.ops)
    /\ LET op == run_in.pipeline.ops[run_i]
           op_options == OpOptions(run_in.options, op)
           called == Operator_apply(op, run_batch)
       IN  /\ run_passed' = Append(run_passed,
                                   [index |-> run_i, options |-> op_options])
           /\ IF called.err # "none"
              THEN /\ run_err' = called.err
                   /\ run_pc' = "raised"
                   /\ UNCHANGED <<run_i, run_batch>>
              ELSE IF ~IsNone(op_options) /\ ~accept_options(op.cls)
              THEN /\ run_err' = "RuntimeError"
                   /\ run_pc' = "raised"
                   /\ run_batch' = called.tu_batch
                   /\ UNCHANGED run_i
              ELSE /\ run_batch' = called.tu_batch
                   /\ run_i' = run_i + 1
                   /\ UNCHANGED <<run_pc, run_err>>
    /\ UNCHANGED <<run_in, run_final, old_vars, frame_vars, inf_vars, gen_vars, reg_vars>>

\* One iteration of "for op in self._ops".
RunOp ==
    /\ run_pc = "ops"
    /\ run_i <= Len(run_in.pipeline.ops)
    /\ LET op == run_in.pipeline.ops[run_i]
           op_options == OpOptions(run_in.options, op)
           called == Operator_apply(op, run_batch)
       IN  IF ~IsNone(op_options) /\ ~accept_options(op.cls)
           THEN /\ run_err' = "RuntimeError"
                /\ run_pc' = "raised"
                /\ UNCHANGED <<run_i, run_batch, run_passed>>
           ELSE /\ run_passed' = Append(run_passed,
                                        [index |-> run_i, options |-> op_options])
                /\ IF called.err # "none"
                   THEN /\ run_err' = called.err
                        /\ run_pc' = "raised"
                        /\ UNCHANGED <<run_i, run_batch>>
                   ELSE /\ run_batch' = called.tu_batch
                        /\ run_i' = run_i + 1
                        /\ UNCHANGED <<run_pc, run_err>>
    /\ UNCHANGED <<run_in, run_final, old_vars, frame_vars, inf_vars, gen_vars, reg_vars>>

\* The loop over the operators is over: the profile is stored (TRAINING).
RunOpsDone ==
    /\ run_pc = "ops"
    /\ run_i > Len(run_in.pipeline.ops)
    /\ run_batch' =
         IF run_in.pipeline.process_type = TRAINING
         THEN [run_batch EXCEPT !.meta =
                 WithProfile(@, {run_in.pipeline.ops[i].name :
                                   i \in DOMAIN run_in.pipeline.ops})]
         ELSE run_batch
    /\ run_pc' = "finalize"
    /\ run_i' = 1
    /\ UNCHANGED <<run_in, run_passed, run_final, run_err, old_vars, frame_vars, inf_vars, gen_vars, reg_vars>>

\* A finalization loop that leaves the TUs as they are.
RunFinalizeSkipping ==
    /\ run_pc = "finalize"
    /\ run_i <= Len(run_batch.tu_list)
    /\ run_i' = run_i + 1
    /\ UNCHANGED <<run_in, run_pc, run_batch, run_passed, run_final, run_err, old_vars, frame_vars, inf_vars, gen_vars, reg_vars>>

\* One iteration of "for tu in tu_list: tu.finalize(self._process_type)".
RunFinalize ==
    /\ run_pc = "finalize"
    /\ run_i <= Len(run_batch.tu_list)
    /\ run_final' = [run_final EXCEPT ![run_batch.tu_list[run_i]] = @ + 1]
    /\ run_i' = run_i + 1
    /\ UNCHANGED <<run_in, run_pc, run_batch, run_passed, run_err, old_vars, frame_vars, inf_vars, gen_vars, reg_vars>>

\* return tu_list, batch_meta
RunReturn ==
    /\ run_pc = "finalize"
    /\ run_i > Len(run_batch.tu_list)
    /\ run_pc' = "returned"
    /\ UNCHANGED <<run_in, run_i, run_batch, run_passed, run_final, run_err, old_vars, frame_vars, inf_vars, gen_vars, reg_vars>>

RunNext == RunOp \/ RunOpsDone \/ RunFinalize \/ RunReturn

SpecRun == RunInit /\ [][RunNext]_vars

(***************************************************************************)
(* operator_info_generator run to its end on a list of entries.            *)
(***************************************************************************)
MaxEntries == 3

\* The entries: those of the lists built above, an entry without a type, an
\* entry whose type is None, an entry with two overrides, a disabled entry
\* that label B enables.
GenEntries ==
    BuildEntries \cup
    {[name |-> Str("x")],
     [op |-> NoneV],
     [op |-> Str("tokenization"),
      overrides |-> Dict([A |-> Dict(cfgA), B |-> Dict(cfgB)])],
     [op |-> Str("tokenization"), disabled |-> Bool(TRUE),
      overrides |-> Dict([B |-> Dict([disabled |-> Bool(FALSE)])])]}

GenLabels ==
    {NoLabel,
     [kind |-> "set", elems |-> {"A"}],
     [kind |-> "set", elems |-> {"B"}],
     [kind |-> "set", elems |-> {"A", "B"}]}

GenInit ==
    /\ gen_in \in [config : SeqsUpTo(GenEntries, MaxEntries),
                   process_type : ProcessType,
                   override_label : GenLabels,
                   preprocess_exit_step : {NoneV, Step(1)},
                   ignore_disabled : BOOLEAN]
    /\ gen_out = NoneV
    /\ OldIdle /\ FrameIdle /\ InfIdle /\ RunIdle /\ RegIdle

\* The generator is iterated until it returns or raises.
Generate ==
    /\ gen_out = NoneV
    /\ gen_out' = <<"g", operator_info_generator(
                            gen_in.config, gen_in.process_type,
                            gen_in.override_label, gen_in.preprocess_exit_step,
                            gen_in.ignore_disabled)>>
    /\ UNCHANGED <<gen_in, old_vars, frame_vars, inf_vars, run_vars, reg_vars>>

GenNext == Generate

SpecGen == GenInit /\ [][GenNext]_vars

(***************************************************************************)
(* register_operator and the decorators it returns, called in any order on *)
(* the registry of the module.  A decorator is the closure _decorator of a *)
(* call; it holds the name of that call.                                   *)
(***************************************************************************)
OperatorNames == {"a", "b", "c"}

OperatorClasses == {"X", "Y"}

\* _OPERATORS_REGISTRY = {}
RegInit ==
    /\ registry = << >>
    /\ decorators = {}
    /\ reg_err = "none"
    /\ first_bound = << >>
    /\ OldIdle /\ FrameIdle /\ InfIdle /\ RunIdle /\ GenIdle

\* register_operator(name): an error for a name already bound, else the
\* decorator for that name.
RegisterOperator(name) ==
    /\ IF name \in DOMAIN registry
       THEN /\ reg_err' = "ValueError"
            /\ UNCHANGED decorators
       ELSE /\ reg_err' = "none"
            /\ decorators' = decorators \cup {name}
    /\ UNCHANGED <<registry, first_bound, old_vars, frame_vars, inf_vars, run_vars, gen_vars>>

\* _decorator(cls), of an earlier call register_operator(name).
Decorate(name, cls) ==
    /\ name \in decorators
    /\ registry' = [n \in DOMAIN registry \cup {name} |->
                      IF n = name THEN cls ELSE registry[n]]
    /\ first_bound' = [n \in DOMAIN first_bound \cup {name} |->
                         IF n \in DOMAIN first_bound THEN first_bound[n] ELSE cls]
    /\ reg_err' = "none"
    /\ UNCHANGED <<decorators, old_vars, frame_vars, inf_vars, run_vars, gen_vars>>

RegNext ==
    \/ \E name \in OperatorNames : RegisterOperator(name)
    \/ \E name \in OperatorNames, cls \in OperatorClasses : Decorate(name, cls)

SpecReg == RegInit /\ [][RegNext]_vars

(***************************************************************************)
(* get_operator_params and build_operator on dict objects.  An object is   *)
(* named by a reference (a string); the heap maps a reference to the dict it *)
(* names, a dict maps a key to a scalar value or to <<"r", reference>>, so *)
(* that writing through one reference is seen through every other one.     *)
(***************************************************************************)
\* The longest sequence of calls on one entry.
MaxResolves == 2

\* The reference of the dict under key k of the object ref.
Field(ref, k) == ref \o "/" \o k

CellOf(v, ref) == IF IsDict(v) THEN <<"r", ref>> ELSE v

\* The objects of the dict value d, the outermost one named root.
RECURSIVE Load(_, _)
Load(d, root) ==
    {<<root, [k \in DOMAIN d |-> CellOf(d[k], Field(root, k))]>>}
    \cup UNION {Load(d[k][2], Field(root, k)) : k \in {x \in DOMAIN d : IsDict(d[x])}}

\* The heap h with the objects objs added.
Store(h, objs) ==
    [p \in DOMAIN h \cup {o[1] : o \in objs} |->
        IF \E o \in objs : o[1] = p
        THEN (CHOOSE o \in objs : o[1] = p)[2]
        ELSE h[p]]

\* The dict value read through a reference.
RECURSIVE Deref(_, _)
Deref(h, ref) ==
    [k \in DOMAIN h[ref] |->
        IF h[ref][k][1] = "r" THEN Dict(Deref(h, h[ref][k][2])) ELSE h[ref][k]]

\* copy.copy: a new outermost object whose nested dicts are the old ones.
shallow_copy(h, ref, new) == [heap |-> Store(h, {<<new, h[ref]>>}), ref |-> new]

\* copy.deepcopy: new objects all the way down.
deepcopy(h, ref, new) == [heap |-> Store(h, Load(Deref(h, ref), new)), ref |-> new]

\* The dict d on the keys alone.
RECURSIVE Restrict(_, _)
Restrict(d, keys) ==
    IF keys = {} THEN << >>
    ELSE LET k == CHOOSE x \in keys : TRUE
         IN  (k :> d[k]) @@ Restrict(d, keys \ {k})

\* d.pop(k, None) on the object
dict_pop(h, ref, k) == [h EXCEPT ![ref] = Restrict(h[ref], DOMAIN h[ref] \ {k})]

\* d[k] = cell on the object
dict_set(h, ref, k, cell) == [h EXCEPT ![ref] = (k :> cell) @@ h[ref]]

\* d.get(k)
dict_get(h, ref, k) == IF k \in DOMAIN h[ref] THEN h[ref][k] ELSE NoneV

\* merge_config(a, b) on objects, for the keys of b still to merge: a is
\* written in place.
RECURSIVE merge_config_into(_, _, _, _)
merge_config_into(h, a, b, keys) ==
    IF keys = {} THEN h
    ELSE LET k == CHOOSE x \in keys : TRUE
             v == h[b][k]
             merged == IF v[1] = "r" /\ k \in DOMAIN h[a] /\ h[a][k][1] = "r"
                       THEN merge_config_into(h, h[a][k][2], v[2], DOMAIN h[v[2]])
                       ELSE dict_set(h, a, k, v)
         IN  merge_config_into(merged, a, b, keys \ {k})

\* get_operator_params on the entry object config; new names the copy.
\* The result is [err, heap, params], params the reference returned.
get_operator_params_on(h, config, operator_type, override_label, new) ==
    LET copied == deepcopy(h, config, new)
        h1 == dict_pop(copied.heap, copied.ref, "op")
        override_config == dict_get(h1, copied.ref, "overrides")
        h2 == dict_pop(h1, copied.ref, "overrides")
        truthy == IF override_config[1] = "r"
                  THEN DOMAIN h2[override_config[2]] # {}
                  ELSE Truthy(override_config)
    IN  IF LabelTruthy(override_label) /\ truthy
        THEN LET keys == h2[override_config[2]]
                 override == {label \in override_label.elems : label \in DOMAIN keys}
                 override_num == Cardinality(override)
                 chosen == keys[CHOOSE l \in override : TRUE][2]
             IN  IF override_num > 1
                 THEN [err |-> "ambiguous", heap |-> h2, params |-> copied.ref]
                 ELSE IF override_num = 1
                 THEN [err |-> "none",
                       heap |-> merge_config_into(h2, copied.ref, chosen,
                                                  DOMAIN h2[chosen]),
                       params |-> copied.ref]
                 ELSE [err |-> "none", heap |-> h2, params |-> copied.ref]
        ELSE [err |-> "none", heap |-> h2, params |-> copied.ref]

\* _add_lang_info on the object operator_params
_add_lang_info_on(h, operator_params, config, side) ==
    LET side_params == dict_get(h, operator_params, side)
    IN  IF ~IsNone(side_params)
        THEN dict_set(h, side_params[2], "lang", Str(config[side]))
        ELSE dict_set(h, operator_params, side \o "_lang", Str(config[side]))

\* build_operator on the object operator_params, up to the constructor:
\* [heap, name, params], params the reference the constructor is given.
build_operator_on(h, operator_type, operator_params, global_config, index) ==
    LET h1 == _add_lang_info_on(h, operator_params, global_config, "source")
        h2 == _add_lang_info_on(h1, operator_params, global_config, "target")
        name == IF "name" \in DOMAIN h2[operator_params]
                THEN h2[operator_params].name[2]
                ELSE DefaultName(operator_type, index)
    IN  [heap |-> dict_pop(h2, operator_params, "name"),
         name |-> name,
         params |-> operator_params]

\* The entries: those of the calls of get_operator_params above, with or
\* without an explicit name.
FrameEntries ==
    ParamEntries \cup
    {[k \in DOMAIN e \cup {"name"} |-> IF k = "name" THEN Str("tok") ELSE e[k]] :
        e \in ParamEntries}

\* The reference of the entry in the configuration.
EntryRef == "entry"

\* The reference of the copy the n-th call makes.
CopyRef(n) == "copy" \o ToString(n)

FrameInit ==
    /\ frame_in \in [entry : FrameEntries, label : ParamLabels]
    /\ heap = Store(<< >>, Load(frame_in.entry, EntryRef))
    /\ frame_out = << >>
    /\ OldIdle /\ RunIdle /\ GenIdle /\ RegIdle /\ InfIdle

\* One pass of the loop of _add_op_list on the entry, at index 0: the
\* parameters are resolved and the operator is built from them.
ResolveAndBuild ==
    /\ Len(frame_out) < MaxResolves
    /\ \E resolved \in {get_operator_params_on(
                           heap, EntryRef, get_operator_type(frame_in.entry).op,
                           frame_in.label, CopyRef(Len(frame_out) + 1))} :
         IF resolved.err # "none"
         THEN /\ heap' = resolved.heap
              /\ frame_out' = Append(frame_out,
                    [err |-> resolved.err, name |-> "", params |-> << >>])
         ELSE \E built \in {build_operator_on(
                               resolved.heap,
                               get_operator_type(frame_in.entry).op,
                               resolved.params, EmptyConfig, 0)} :
                /\ heap' = built.heap
                /\ frame_out' = Append(frame_out,
                      [err |-> "none", name |-> built.name,
                       params |-> Deref(built.heap, built.params)])
    /\ UNCHANGED <<frame_in, old_vars, run_vars, gen_vars, reg_vars, inf_vars>>

FrameNext == ResolveAndBuild

SpecFrame == FrameInit /\ [][FrameNext]_vars

(***************************************************************************)
(* InferenceProcessor: one processor, process_input called from several    *)
(* threads.  A Pipeline object is named by its position in                  *)
(* allocated.pipelines, a TU by its number; a thread is at one of          *)
(*   "idle"      outside process_input                                     *)
(*   "called"    before "if config:"                                       *)
(*   "selected"  the local variable pipeline is bound                      *)
(*   "ops"       in the loop of Pipeline.__call__                          *)
(*   "returned", "raised"                                                  *)
(***************************************************************************)
\* The most calls of process_input made on one processor.
MaxInferCalls == 3

InferThreads == {"t1", "t2"}

\* The configurations of the processor.
InferConfigs ==
    {[source |-> "en", target |-> "fr", preprocess |-> pre,
      postprocess |-> << >>, vocabulary |-> NoVocabulary] :
        pre \in {<<[op |-> Str("tokenization")], [op |-> Str("length_filter")]>>,
                 <<[op |-> Str("tokenization")]>>,
                 << >>}}

\* The config argument: None, an empty override, an override of a list.
InferOverrides ==
    {NoneV,
     <<"c", << >>>>,
     <<"c", [preprocess |-> <<[op |-> Str("length_filter")],
                              [op |-> Str("tokenization")]>>]>>}

\* The options argument.
InferOptions ==
    {NoneV,
     Dict([tokenization_0 |-> Str("o1")]),
     Dict([length_filter_1 |-> Str("o2")])}

\* "if config:"
OverrideTruthy(config) == config[1] = "c" /\ DOMAIN config[2] # {}

\* config_util.merge_config(copy.deepcopy(self._config), config) for an
\* override of top-level lists: the keys of the override replace those of
\* the copy.
merge_override(config, override) ==
    [k \in DOMAIN config \cup DOMAIN override |->
        IF k \in DOMAIN override THEN override[k] ELSE config[k]]

\* InferenceProcessor.build_pipeline(config): [pipeline, shared], shared
\* the shared state of the processor as get() leaves it.
build_pipeline(self, config) ==
    LET got == SharedState_get(self._global_shared_state, self._config,
                               self._pipeline_type, 0, NoLabel, <<"none">>)
    IN  [pipeline |-> Pipeline(config, self._pipeline_type, NoneV, NoLabel,
                               got.ret).pipeline,
         shared |-> got.self]

IdleThread ==
    [pc |-> "idle", config |-> NoneV, options |-> NoneV, pipeline |-> 0,
     tu_batch |-> [tu_list |-> << >>, meta |-> << >>], i |-> 0, err |-> "none"]

\* InferenceProcessor.__init__.  v2 is what config_util.is_v2_config answers
\* for the configuration.
InferInit ==
    /\ \E config \in InferConfigs, postprocess \in BOOLEAN, v2 \in BOOLEAN :
         LET pipeline_type == IF postprocess THEN POSTPROCESS ELSE INFERENCE
             self == [_config |-> config,
                      _pipeline_type |-> pipeline_type,
                      _postprocess |-> postprocess,
                      _global_shared_state |->
                          SharedState(config, pipeline_type, NoneV, 0).self,
                      v2 |-> v2]
             built == build_pipeline(self, config)
         IN  /\ inference =
                  [k \in DOMAIN self \cup {"_pipeline"} |->
                     IF k = "_pipeline" THEN 1
                     ELSE IF k = "_global_shared_state" THEN built.shared
                     ELSE self[k]]
             /\ allocated = [pipelines |-> <<built.pipeline>>, tus |-> 0, calls |-> 0]
    /\ threads = [t \in InferThreads |-> IdleThread]
    /\ OldIdle /\ RunIdle /\ GenIdle /\ RegIdle /\ FrameIdle

\* A thread calls process_input(source, config=config, options=options).
InferCall(t) ==
    /\ threads[t].pc \in {"idle", "returned", "raised"}
    /\ allocated.calls < MaxInferCalls
    /\ \E config \in InferOverrides, options \in InferOptions :
         threads' = [threads EXCEPT ![t] =
                       [IdleThread EXCEPT !.pc = "called",
                                          !.config = config,
                                          !.options = options]]
    /\ allocated' = [allocated EXCEPT !.calls = @ + 1]
    /\ UNCHANGED <<inference, old_vars, run_vars, gen_vars, reg_vars, frame_vars>>

\* A selection that keeps the pipeline built for an override as the
\* pipeline of the processor.
InferSelectStoring(t) ==
    /\ threads[t].pc = "called"
    /\ IF OverrideTruthy(threads[t].config)
       THEN IF inference.v2
            THEN /\ threads' = [threads EXCEPT ![t].pc = "raised",
                                               ![t].err = "ValueError"]
                 /\ UNCHANGED <<inference, allocated>>
            ELSE \E built \in {build_pipeline(inference,
                                  merge_override(inference._config,
                                                 threads[t].config[2]))} :
                   /\ allocated' = [allocated EXCEPT
                                      !.pipelines = Append(@, built.pipeline)]
                   /\ inference' = [inference EXCEPT
                                      !._global_shared_state = built.shared,
                                      !._pipeline = Len(allocated.pipelines) + 1]
                   /\ threads' = [threads EXCEPT
                                    ![t].pc = "selected",
                                    ![t].pipeline = Len(allocated.pipelines) + 1]
       ELSE /\ threads' = [threads EXCEPT ![t].pc = "selected",
                                          ![t].pipeline = inference._pipeline]
            /\ UNCHANGED <<inference, allocated>>
    /\ UNCHANGED <<old_vars, run_vars, gen_vars, reg_vars, frame_vars>>

\* "if config: ... pipeline = self.build_pipeline(config)
\*  else: pipeline = self._pipeline"
InferSelect(t) ==
    /\ threads[t].pc = "called"
    /\ IF OverrideTruthy(threads[t].config)
       THEN IF inference.v2
            THEN /\ threads' = [threads EXCEPT ![t].pc = "raised",
                                               ![t].err = "ValueError"]
                 /\ UNCHANGED <<inference, allocated>>
            ELSE \E built \in {build_pipeline(inference,
                                  merge_override(inference._config,
                                                 threads[t].config[2]))} :
                   /\ allocated' = [allocated EXCEPT
                                      !.pipelines = Append(@, built.pipeline)]
                   /\ inference' = [inference EXCEPT
                                      !._global_shared_state = built.shared]
                   /\ threads' = [threads EXCEPT
                                    ![t].pc = "selected",
                                    ![t].pipeline = Len(allocated.pipelines) + 1]
       ELSE /\ threads' = [threads EXCEPT ![t].pc = "selected",
                                          ![t].pipeline = inference._pipeline]
            /\ UNCHANGED <<inference, allocated>>
    /\ UNCHANGED <<old_vars, run_vars, gen_vars, reg_vars, frame_vars>>

\* "tu = TranslationUnit(...); tu_batch = ([tu], {})" and the entry into
\* pipeline(tu_batch, options=options).
InferMakeBatch(t) ==
    /\ threads[t].pc = "selected"
    /\ allocated' = [allocated EXCEPT !.tus = @ + 1]
    /\ threads' = [threads EXCEPT
                     ![t].pc = "ops",
                     ![t].i = 1,
                     ![t].tu_batch = [tu_list |-> <<allocated.tus + 1>>,
                                      meta |-> << >>]]
    /\ UNCHANGED <<inference, old_vars, run_vars, gen_vars, reg_vars, frame_vars>>

\* One iteration of "for op in self._ops" in the thread.
InferOp(t) ==
    /\ threads[t].pc = "ops"
    /\ threads[t].i <= Len(allocated.pipelines[threads[t].pipeline].ops)
    /\ LET op == allocated.pipelines[threads[t].pipeline].ops[threads[t].i]
           op_options == OpOptions(threads[t].options, op)
           called == Operator_apply(op, threads[t].tu_batch)
       IN  threads' =
             IF ~IsNone(op_options) /\ ~accept_options(op.cls)
             THEN [threads EXCEPT ![t].pc = "raised", ![t].err = "RuntimeError"]
             ELSE IF called.err # "none"
             THEN [threads EXCEPT ![t].pc = "raised", ![t].err = called.err]
             ELSE [threads EXCEPT ![t].tu_batch = called.tu_batch,
                                  ![t].i = @ + 1]
    /\ UNCHANGED <<inference, allocated, old_vars, run_vars, gen_vars, reg_vars, frame_vars>>

\* The end of Pipeline.__call__ and "tu = tu_batch[0][0]".
InferReturn(t) ==
    /\ threads[t].pc = "ops"
    /\ threads[t].i > Len(allocated.pipelines[threads[t].pipeline].ops)
    /\ threads' =
         IF threads[t].tu_batch.tu_list = << >>
         THEN [threads EXCEPT ![t].pc = "raised", ![t].err = "IndexError"]
         ELSE [threads EXCEPT ![t].pc = "returned"]
    /\ UNCHANGED <<inference, allocated, old_vars, run_vars, gen_vars, reg_vars, frame_vars>>

InferNext ==
    \E t \in InferThreads :
        \/ InferCall(t)
        \/ InferSelect(t)
        \/ InferMakeBatch(t)
        \/ InferOp(t)
        \/ InferReturn(t)

SpecInfer == InferInit /\ [][InferNext]_vars

(***************************************************************************)
(* The claims.                                                             *)
(***************************************************************************)
Parallel == processor._num_workers >= 1

\* The handle of batch id in the deque res.
HandleOf(res, id) == CHOOSE h \in SeqRange(res) : h.id = id

\* Worker w finishes its task in this step.
Finishes(w) == ~IsNone(running[w]) /\ IsNone(running'[w])

\* C1: in parallel mode the consumer is handed the results in loader order:
\* the result of batch i before the result of batch j whenever i < j,
\* whatever the order in which the workers complete the batches.
C1_ConsumedInLoaderOrder ==
    Parallel =>
        \A i, j \in DOMAIN consumed : i < j => consumed[i] < consumed[j]

\* Two workers, the second of two outstanding batches completed before the
\* first, after results were handed to the consumer.
C1_Witness ==
    /\ processor._num_workers = 2
    /\ Len(consumed) >= 2
    /\ Len(results) >= 2
    /\ ~results[1].ready
    /\ results[2].ready

\* C2: in parallel mode with N workers at most 2N submissions are outstanding
\* (submitted to the pool and not yet handed to the consumer) at every point,
\* also when the loader yields more than 2N batches.
C2_OutstandingBounded ==
    Parallel => Len(results) <= 2 * processor._num_workers

\* Two workers, four submissions outstanding after the fifth batch of the
\* loader was submitted.
C2_Witness ==
    /\ processor._num_workers = 2
    /\ emitted = MaxBatches
    /\ Len(results) = 2 * processor._num_workers
    /\ pc = "wait"

\* C3: in parallel mode an exception raised while a worker processes batch k
\* is re-raised as an error naming the worker process and, when the metadata
\* of the batch has a corpus name, that name; the error surfaces when the
\* orchestrator retrieves the result of batch k, process() then aborts, and
\* batch k is never handed to the consumer.
C3_WorkerFailureAborts ==
    [][ Parallel =>
        /\ \A w \in Workers :
             Finishes(w) =>
               LET task == running[w][2]
                   h == HandleOf(results', task.tu_batch.id)
                   base_name == task.tu_batch.meta.base_name
               IN  /\ h.ready
                   /\ (task.tu_batch.id \in failed') = (h.err.kind # "none")
                   /\ h.err.kind # "none" =>
                        /\ h.err.kind = "RuntimeError"
                        /\ h.err.worker = WorkerName(w)
                        /\ ~IsNone(base_name) => h.err.file = base_name
        /\ (Len(results') < Len(results) /\ results[1].id \in failed) =>
             /\ pc' = "aborted"
             /\ error' = results[1].err
             /\ consumed' = consumed
        /\ \A i \in DOMAIN consumed' : consumed'[i] \notin failed'
      ]_vars

\* process() has aborted with the error of the second worker, which names the
\* worker and the corpus, after some batches were handed to the consumer.
C3_Witness ==
    /\ pc = "aborted"
    /\ error.kind = "RuntimeError"
    /\ error.worker = WorkerName(2)
    /\ error.file = Str("corpus")
    /\ Len(consumed) > 0
    /\ failed # {}

\* process() has returned with the queue empty and every batch of the loader
\* handed to the consumer exactly once.
Completed ==
    /\ pc = "done"
    /\ results = << >>
    /\ consumed = [i \in 1..emitted |-> i - 1]

\* process() has aborted on a configuration error raised in the orchestrator
\* while it fetched the shared state of a batch.
ConfigAbort == pc = "aborted" /\ error.worker = "" /\ failed = {}

Replaced(old, new, override_label) ==
    new # old =>
        /\ IsNone(old) \/ override_label # old[3].override_label
        /\ ~IsNone(new)
        /\ new[3].override_label = override_label
        /\ ~IsNone(old) => new[2] # old[2]

\* After a batch of the given label was processed without error, the cached
\* pipeline has that label, and it is the same object as before if one of that
\* label was cached.
Cached(old, new, override_label) ==
    /\ ~IsNone(new)
    /\ new[3].override_label = override_label
    /\ (~IsNone(old) /\ old[3].override_label = override_label) => new = old

\* C9: inline and in each worker the cached Pipeline is rebuilt when and only
\* when none is cached or the label of the batch differs from the label of the
\* cached one; batches of one label handled in a row by a process reuse the
\* same Pipeline object, and a worker never changes the pipeline of another.
C9_RebuildOnLabelChange ==
    [][ /\ \A w \in Workers :
             /\ worker_pipeline'[w] # worker_pipeline[w] => Finishes(w)
             /\ Finishes(w) =>
                  LET task == running[w][2]
                      h == HandleOf(results', task.tu_batch.id)
                  IN  /\ Replaced(worker_pipeline[w], worker_pipeline'[w],
                                  task.override_label)
                      /\ h.err.kind = "none" =>
                           Cached(worker_pipeline[w], worker_pipeline'[w],
                                  task.override_label)
        /\ pipeline' # pipeline => pc = "process"
        /\ pc = "process" =>
             /\ Replaced(pipeline, pipeline', current[2].override_label)
             /\ pc' = "loop" =>
                  Cached(pipeline, pipeline', current[2].override_label)
      ]_vars

\* One worker holds the pipeline of label A, built after another one (its
\* second Pipeline object), while the other worker holds the default one.
C9_Witness ==
    /\ processor._num_workers = 2
    /\ ~IsNone(worker_pipeline[1])
    /\ ~IsNone(worker_pipeline[2])
    /\ worker_pipeline[1][2] = "p1"
    /\ worker_pipeline[1][3].override_label = [kind |-> "set", elems |-> {"A"}]
    /\ worker_pipeline[2][3].override_label = NoLabel

\* The inline loop holds a pipeline it has rebuilt for the label A.
C9_WitnessInline ==
    /\ processor._num_workers = 0
    /\ ~IsNone(pipeline)
    /\ pipeline[2] = "p1"
    /\ pipeline[3].override_label = [kind |-> "set", elems |-> {"A"}]

(***************************************************************************)
(* Claims on the pipelines built.                                          *)
(***************************************************************************)
\* What identifies a bound operator in a sequence: its type, the index of
\* its entry, its name and the list it comes from.
Ident(op) == <<op.type, op.index, op.name, op.postprocess_only>>

Idents(ops) == [i \in DOMAIN ops |-> Ident(ops[i])]

\* Pipelines have been built for both process types.
BothBuilt(a, b) ==
    /\ {a, b} \subseteq DOMAIN built_for
    /\ built_for[a].err = "none"
    /\ built_for[b].err = "none"

OpsFor(process_type) == built_for[process_type].pipeline.ops

\* The entries of the postprocess list that are applied for POSTPROCESS and
\* enabled under the label, as operators bound in configuration order.
PostprocessOnly ==
    LET post == build_in.config.postprocess
        Type(j) == post[j].op[2]
        Params(j) ==
            get_operator_params(post[j], Type(j), build_in.override_label).params
        Enabled(j) ==
            /\ is_applied_for(_OPERATORS_REGISTRY[Type(j)], POSTPROCESS)
            /\ ~Truthy(DictGetDefault(Params(j), "disabled", Bool(FALSE)))
        Name(j) == IF "name" \in DOMAIN Params(j) THEN Params(j).name[2]
                   ELSE Type(j) \o "_" \o ToString(j - 1)
        kept == SelectSeq([j \in DOMAIN post |-> j], Enabled)
    IN  [i \in DOMAIN kept |-> <<Type(kept[i]), kept[i] - 1, Name(kept[i]), TRUE>>]

\* C5 as stated: the operators of the POSTPROCESS pipeline are those of the
\* pipeline built from the same configuration for TRAINING, and for
\* INFERENCE, in reverse order, followed by the postprocess list.
C5_AsStated ==
    \A forward \in {TRAINING, INFERENCE} :
        BothBuilt(forward, POSTPROCESS) =>
            LET fwd == Idents(OpsFor(forward))
                n == Len(fwd)
            IN  Idents(OpsFor(POSTPROCESS)) =
                    [i \in 1..n |-> fwd[n + 1 - i]] \o PostprocessOnly

\* A forward operator that also runs in POSTPROCESS: any but a filter.
NotFilter(op) == op.cls.base # "Filter"

\* C5, amended: the operators of the POSTPROCESS pipeline are the forward
\* operators of the TRAINING or INFERENCE pipeline built from the same
\* configuration that are applied for POSTPROCESS (all but the filters, which
\* only a TRAINING pipeline holds), in reverse order, followed by the enabled
\* entries of the postprocess list in configuration order.
C5_ReverseOfAppliedForward ==
    \A forward \in {TRAINING, INFERENCE} :
        BothBuilt(forward, POSTPROCESS) =>
            LET fwd == Idents(SelectSeq(OpsFor(forward), NotFilter))
                n == Len(fwd)
            IN  Idents(OpsFor(POSTPROCESS)) =
                    [i \in 1..n |-> fwd[n + 1 - i]] \o PostprocessOnly

\* Two different forward operators and a postprocess operator, the pipelines
\* for INFERENCE and for POSTPROCESS built.
C5_Witness ==
    /\ BothBuilt(INFERENCE, POSTPROCESS)
    /\ Len(OpsFor(INFERENCE)) = 2
    /\ OpsFor(INFERENCE)[1].name # OpsFor(INFERENCE)[2].name
    /\ Len(OpsFor(POSTPROCESS)) = 3

\* C6 as stated: in every pipeline built, no two bound operators have the
\* same name.
C6_UniqueNames ==
    \A process_type \in DOMAIN built_for :
        built_for[process_type].err = "none" =>
            \A i, j \in DOMAIN OpsFor(process_type) :
                i # j => OpsFor(process_type)[i].name # OpsFor(process_type)[j].name

(***************************************************************************)
(* Claim on get_operator_params.                                           *)
(***************************************************************************)
\* The entry without its routing fields.
BaseParams(config) == [k \in DOMAIN config \ {"op", "overrides"} |-> config[k]]

\* The override map of the entry, empty when it has none.
OverrideMap(config) ==
    IF "overrides" \in DOMAIN config THEN config.overrides[2] ELSE << >>

\* C7: when exactly one active label is an override key, the result is the
\* base parameters with that override deep-merged over them; when more than
\* one is, resolution fails with the ambiguity error; when none is, the
\* result is the base parameters.
C7_OverrideResolution ==
    ~IsNone(params_out) =>
        LET config == params_in.config
            hits == params_in.label.elems \cap DOMAIN OverrideMap(config)
            out == params_out[2]
        IN  /\ Cardinality(hits) = 1 =>
                /\ out.err = "none"
                /\ \A l \in hits :
                     out.params = merge_config(BaseParams(config),
                                               OverrideMap(config)[l][2])
            /\ Cardinality(hits) > 1 => out.err = "ambiguous"
            /\ Cardinality(hits) = 0 =>
                /\ out.err = "none"
                /\ out.params = BaseParams(config)

\* The map {"A": cfgA, "B": cfgB} and the labels A and C: cfgA has been
\* merged over a base that holds another mode.
C7_Witness ==
    /\ ~IsNone(params_out)
    /\ DOMAIN OverrideMap(params_in.config) = {"A", "B"}
    /\ params_in.label.elems = {"A", "C"}
    /\ params_out[2].err = "none"
    /\ params_out[2].params.mode = Str("aggressive")
    /\ "source" \in DOMAIN params_out[2].params

(***************************************************************************)
(* Claim on SharedState.get.                                               *)
(***************************************************************************)
\* The identities of the instances of a shared state returned by get():
\* operator index -> name -> identity.
InstanceIds(ret) ==
    [i \in DOMAIN ret[2] |-> [n \in DOMAIN ret[2][i] |-> ret[2][i][n].id]]

\* A call of get() that returned a shared state.
Returned(g) == g.err = "none" /\ ~IsNone(g.ret)

\* The arguments the operator of entry i builds its shared resource n with,
\* under a label.
BuilderArgs(label, i, n) ==
    LET entry == shared_args.config.preprocess[i + 1]
        type == entry.op[2]
    IN  get_shared_builders(_OPERATORS_REGISTRY[type],
                            get_operator_params(entry, type, label).params,
                            TRAINING)[n].args

\* C8: two calls of get() with the same label return the same instances, and
\* two calls with labels for which an operator builds a shared resource with
\* different arguments return different instances of it.
C8_SharedInstances ==
    \A a, b \in DOMAIN gets :
        (Returned(gets[a]) /\ Returned(gets[b])) =>
            /\ gets[a].label = gets[b].label =>
                   InstanceIds(gets[a].ret) = InstanceIds(gets[b].ret)
            /\ \A i \in DOMAIN gets[a].ret[2] \cap DOMAIN gets[b].ret[2] :
                 \A n \in DOMAIN gets[a].ret[2][i] \cap DOMAIN gets[b].ret[2][i] :
                   BuilderArgs(gets[a].label, i, n) # BuilderArgs(gets[b].label, i, n)
                     => gets[a].ret[2][i][n].id # gets[b].ret[2][i][n].id

\* Label A asked twice, then no label: the aligner's model is returned for
\* each call.
C8_Witness ==
    /\ Len(gets) = 3
    /\ \A a \in DOMAIN gets : Returned(gets[a]) /\ DOMAIN gets[a].ret[2] # {}
    /\ gets[1].label.elems = {"A"}
    /\ gets[2].label = gets[1].label
    /\ gets[3].label = NoLabel

(***************************************************************************)
(* Claim on Filter.__call__.                                               *)
(***************************************************************************)
\* A criterion of the filter holds for the unit.
Matches(tu) == \E c \in DOMAIN call_op.criteria : tu \in call_op.criteria[c]

NoMatch(tu) == ~Matches(tu)

\* filter_summary[name] in the metadata, 0 when absent.
Counted(meta, name) ==
    IF "filter_summary" \in DOMAIN meta /\ name \in DOMAIN meta.filter_summary
    THEN meta.filter_summary[name]
    ELSE 0

\* C10: a filter applied in TRAINING to a batch in which k units match one
\* of its criteria leaves the units that match none, in their order, and adds
\* k to filter_summary[name]; it raises no error, whatever k.
C10_FilterDropsAndCounts ==
    [][(call_op.process_type = TRAINING /\ call_count' = call_count + 1) =>
         LET tu_list == call_batch.tu_list
             k == Cardinality({i \in DOMAIN tu_list : Matches(tu_list[i])})
         IN  /\ call_err' = "none"
             /\ call_batch'.tu_list = SelectSeq(tu_list, NoMatch)
             /\ Len(call_batch'.tu_list) = Len(tu_list) - k
             /\ Counted(call_batch'.meta, call_op.name) =
                    Counted(call_batch.meta, call_op.name) + k
             /\ \A other \in DOMAIN call_batch'.meta.filter_summary \ {call_op.name} :
                    Counted(call_batch'.meta, other) = Counted(call_batch.meta, other)
       ]_vars

\* A batch of three units, all dropped by the filter f, whose count of 2 has
\* become 5.
C10_Witness ==
    /\ call_count = 1
    /\ call_op.process_type = TRAINING
    /\ call_op.name = "f"
    /\ call_batch.tu_list = << >>
    /\ Counted(call_batch.meta, "f") = 5

(***************************************************************************)
(* Claims about Pipeline.__call__.                                         *)
(***************************************************************************)
RunOps == run_in.pipeline.ops

\* The payload the options hold under the name of the i-th operator.
Payload(i) ==
    IF run_in.options[1] = "d" /\ RunOps[i].name \in DOMAIN run_in.options[2]
    THEN run_in.options[2][RunOps[i].name]
    ELSE NoneV

\* Some bound operator that takes no options has a payload under its name.
Refused == \E i \in DOMAIN RunOps : Payload(i) # NoneV /\ ~RunOps[i].cls.options

RunUnits == {run_batch.tu_list[i] : i \in DOMAIN run_batch.tu_list}

\* C14: a TU is finalized only after every bound operator was applied to
\* the batch, and when the call returns each TU of the returned list was
\* finalized exactly once and no other TU (a dropped one) was finalized.
C14_FinalizedOnceAtTheEnd ==
    /\ \A u \in Units :
         run_final[u] > 0 =>
           /\ run_pc \in {"finalize", "returned"}
           /\ Len(run_passed) = Len(RunOps)
           /\ u \in RunUnits
    /\ run_pc = "returned" =>
         \A u \in Units : run_final[u] = IF u \in RunUnits THEN 1 ELSE 0

\* A call returns a batch from which a filter dropped a TU.
C14_Witness ==
    /\ run_pc = "returned"
    /\ RunUnits # {}
    /\ "filter_summary" \in DOMAIN run_batch.meta
    /\ \E n \in DOMAIN run_batch.meta.filter_summary :
         run_batch.meta.filter_summary[n] > 0

(***************************************************************************)
(* Claims about the resolution of entries.                                 *)
(***************************************************************************)
\* The entry at index i (0-based) has no type.
LacksType(i) ==
    "op" \notin DOMAIN gen_in.config[i + 1] \/ gen_in.config[i + 1].op = NoneV

\* The entry at index i names a type that is not registered.
UnknownType(i) ==
    /\ ~LacksType(i)
    /\ gen_in.config[i + 1].op[2] \notin {"tokenization", "length_filter", "alignment"}

\* C12: the resolution of an entry that has no 'op' field, or whose 'op' is
\* not a registered type, ends the generator with the configuration error
\* of that case (ValueError), and no operator is yielded for that entry;
\* these errors come from such an entry only.
C12_BadEntryRaises ==
    gen_out # NoneV =>
      LET out == gen_out[2]
      IN  /\ \A i \in out.read :
               /\ LacksType(i) => out.err = "missing_op"
               /\ UnknownType(i) => out.err = "unknown_op"
               /\ LacksType(i) \/ UnknownType(i) =>
                    \A k \in DOMAIN out.infos : out.infos[k].i < i
          /\ out.err = "missing_op" => \E i \in out.read : LacksType(i)
          /\ out.err = "unknown_op" => \E i \in out.read : UnknownType(i)

\* An entry of an unregistered type is resolved after an operator was
\* yielded.
C12_Witness ==
    /\ gen_out # NoneV
    /\ gen_out[2].err = "unknown_op"
    /\ gen_out[2].infos # << >>

(***************************************************************************)
(* Claims about the configuration errors of a run.                         *)
(***************************************************************************)
ConfigErrors == {"missing_op", "unknown_op", "ambiguous"}

\* process() has ended with a configuration error.
ConfigErrorRaised == pc = "aborted" /\ error.cause \in ConfigErrors

\* Batch b is held somewhere on its way to the consumer.
InFlight(b) ==
    \/ \E i \in DOMAIN results : results[i].id = b
    \/ \E i \in DOMAIN task_queue : task_queue[i].tu_batch.id = b
    \/ \E w \in Workers : ~IsNone(running[w]) /\ running[w][2].tu_batch.id = b
    \/ ~IsNone(current) /\ current[2].tu_batch.id = b

\* The configuration of ProcConfig followed by an entry without a type, or
\* by an entry of an unregistered type.
ConfigWith(entry) == [ProcConfig EXCEPT !.preprocess = Append(@, entry)]

ForwardOps(process_type, last) ==
    LET pre == build_in.config.preprocess
        Type(j) == pre[j].op[2]
        Params(j) ==
            get_operator_params(pre[j], Type(j), build_in.override_label).params
        Enabled(j) ==
            /\ j - 1 <= last
            /\ Type(j) \in {"tokenization", "length_filter", "alignment"}
            /\ Type(j) = "length_filter" => process_type = TRAINING
            /\ ~Truthy(DictGetDefault(Params(j), "disabled", Bool(FALSE)))
        Name(j) == IF "name" \in DOMAIN Params(j) THEN Params(j).name[2]
                   ELSE Type(j) \o "_" \o ToString(j - 1)
        kept == SelectSeq([j \in DOMAIN pre |-> j], Enabled)
    IN  [i \in DOMAIN kept |-> <<Type(kept[i]), kept[i] - 1, Name(kept[i]), FALSE>>]

\* C15 as stated: the operators of a pipeline built for TRAINING or INFERENCE
\* are the applicable, enabled entries of the whole forward list.
C15_AsStated ==
    \A forward \in {TRAINING, INFERENCE} \cap DOMAIN built_for :
        built_for[forward].err = "none" =>
            Idents(OpsFor(forward)) =
                ForwardOps(forward, Len(build_in.config.preprocess))

\* C15: the operators of a pipeline built for TRAINING or INFERENCE are the
\* entries of the forward list, up to the exit step when one is given, that
\* are applied for the process type and not disabled under the label, in
\* configuration order; none comes from the postprocess list.
C15_ForwardEntriesUpToExitStep ==
    \A forward \in {TRAINING, INFERENCE} \cap DOMAIN built_for :
        built_for[forward].err = "none" =>
            /\ Idents(OpsFor(forward)) =
                 ForwardOps(forward,
                            IF IsNone(build_in.exit_step)
                            THEN Len(build_in.config.preprocess)
                            ELSE build_in.exit_step[2])
            /\ \A i \in DOMAIN OpsFor(forward) :
                 ~OpsFor(forward)[i].postprocess_only

\* A TRAINING pipeline of two operators and an INFERENCE pipeline of one (the
\* filter is left out), from a configuration with a postprocess entry.
C15_Witness ==
    /\ BothBuilt(TRAINING, INFERENCE)
    /\ Len(OpsFor(TRAINING)) = 2
    /\ Len(OpsFor(INFERENCE)) = 1
    /\ build_in.config.postprocess # << >>

(***************************************************************************)
(* Claims on the manager of a SharedState.                                 *)
(***************************************************************************)
\* The instances the cache holds.
AllInstances ==
    UNION {{cache._all_state[i][k] : k \in DOMAIN cache._all_state[i]} :
             i \in DOMAIN cache._all_state}

IsAligner(entry) == entry.op = Str("alignment")

\* The shared classes the operators of the forward list declare, one for
\* each aligner, in configuration order.
DeclaredClasses ==
    [i \in DOMAIN SelectSeq(shared_args.config.preprocess, IsAligner) |->
        "AlignerModel"]

\* The number of register calls made for class c.
RegisterCalls(c) ==
    Cardinality({i \in DOMAIN cache.registered : cache.registered[i] = c})

\* C16 as stated: with workers, the manager is started at most once and
\* only if an operator declares a shared class, each shared class is
\* registered once, and every instance is hosted by the manager.
C16_AsStated ==
    shared_args.num_workers > 0 =>
        /\ cache.starts <= 1
        /\ cache.starts = 1 => DeclaredClasses # << >>
        /\ \A c \in {"AlignerModel"} :
             RegisterCalls(c) = IF DeclaredClasses # << >> THEN 1 ELSE 0
        /\ \A inst \in AllInstances : inst.hosted

\* C16: with workers, the manager is started exactly once when the forward
\* list is not empty, by the get() of the constructor and whether or not an
\* operator declares a shared class, and never when the list is empty; the
\* register calls are made then, one for each shared class of each operator
\* of the forward list (two for a class that two operators declare), and no
\* later call of get() repeats them; every instance built is hosted by the
\* manager.  Without workers no manager is started and no instance is hosted.
C16_ManagerStartedOnce ==
    /\ shared_args.num_workers > 0 =>
        /\ cache.starts = IF shared_args.config.preprocess # << >> THEN 1 ELSE 0
        /\ cache._manager <=> cache.starts = 1
        /\ cache.registered =
             IF cache.starts = 1 THEN DeclaredClasses ELSE << >>
        /\ \A inst \in AllInstances : inst.hosted
    /\ shared_args.num_workers = 0 =>
        /\ cache.starts = 0 /\ ~cache._manager /\ cache.registered = << >>
        /\ \A inst \in AllInstances : ~inst.hosted

\* With a worker and two aligners: the manager is started, the class is
\* registered twice, and get() has built instances for two labels.
C16_Witness ==
    /\ shared_args.num_workers = 1
    /\ cache.starts = 1
    /\ Len(cache.registered) = 2
    /\ Len(gets) = 2
    /\ \A a \in DOMAIN gets : Returned(gets[a])
    /\ gets[1].label # gets[2].label
    /\ Cardinality(AllInstances) >= 3

(***************************************************************************)
(* Claim on SharedState.get with a mapping for a label.                    *)
(***************************************************************************)
\* The shared state get() returns for no label.
DefaultSharedState ==
    IF <<"none">> \in DOMAIN cache._cached_state
    THEN SharedMap(cache._cached_state[<<"none">>])
    ELSE SharedMap(<< >>)

\* C20 as stated: a call of get() with a mapping raises no error and returns
\* the default shared state.
C20_AsStated ==
    \A a \in DOMAIN gets :
        gets[a].label.kind = "dict" =>
            gets[a].err = "none" /\ gets[a].ret = DefaultSharedState

\* This step is a call of get() with a mapping for a label.
GetsMapping ==
    /\ Len(gets') = Len(gets) + 1
    /\ gets'[Len(gets')].label.kind = "dict"

\* C20: a call of get() with a mapping for a label raises no error, returns
\* None (no shared state, not the default one) and leaves the SharedState
\* object, its cache included, unchanged.
C20_MappingLabelReturnsNone ==
    [][GetsMapping =>
         /\ gets'[Len(gets')].err = "none"
         /\ gets'[Len(gets')].ret = NoneV
         /\ cache' = cache]_vars

\* get() was called with a mapping on a cache that holds the shared states
\* of two labels, instances included.
C20_Witness ==
    /\ Len(gets) = 2
    /\ Returned(gets[1]) /\ DOMAIN gets[1].ret[2] # {}
    /\ gets[1].label.kind = "set"
    /\ gets[2].label.kind = "dict"
    /\ gets[2].ret = NoneV

(***************************************************************************)
(* Claim on the registry.                                                  *)
(***************************************************************************)
\* C17 as stated: a name, once bound, is bound to the class first registered
\* under it.
C17_FirstBindingStays ==
    \A name \in DOMAIN first_bound :
        name \in DOMAIN registry /\ registry[name] = first_bound[name]

(***************************************************************************)
(* Claims on the abort and on the backpressure of a parallel run.          *)
(***************************************************************************)
\* process() has ended with the exception of a worker.
WorkerAbort == pc = "aborted" /\ error.worker # ""

\* The failed batch emitted first.
LowestFailed == CHOOSE k \in failed : \A j \in failed : k <= j

\* C18: in parallel mode, when the exception of a worker has ended the run,
\* the consumer has been handed exactly the batches emitted before the
\* failed batch of lowest index, in loader order: not the failed batch, and
\* no batch emitted after it, whether or not a worker has completed it.
C18_DeliveredUpToFirstFailure ==
    Parallel /\ WorkerAbort =>
        /\ failed # {}
        /\ consumed = [i \in 1..LowestFailed |-> i - 1]

\* Two workers: the run is aborted by the failure of the second batch while
\* the result of a later batch, completed without exception, is in the queue.
C18_Witness ==
    /\ processor._num_workers = 2
    /\ WorkerAbort
    /\ failed = {1}
    /\ consumed = <<0>>
    /\ \E i \in DOMAIN results :
         results[i].ready /\ results[i].err.kind = "none"

\* The orchestrator pulls a batch from the loader in this step.
Pulls == emitted' = emitted + 1

\* C19: in parallel mode with N workers, a submission that brings the
\* number of outstanding results to 2N sends the orchestrator waiting for
\* the oldest one; it leaves the wait only once that result is ready, and
\* then hands it to the consumer (or aborts on its exception) before it
\* pulls again; at every pull of the loader at most 2N - 1 submissions are
\* outstanding, all the batches before them having been handed over.
C19_Backpressure ==
    [][ Parallel =>
        LET N == processor._num_workers
        IN  /\ Pulls =>
                 /\ Len(results) <= 2 * N - 1
                 /\ Len(consumed) >= emitted - (2 * N - 1)
            /\ (Pulls /\ Len(results') = 2 * N) => pc' = "wait"
            /\ (pc = "wait" /\ pc' # "wait") => results[1].ready /\ pc' = "drain"
            /\ (pc = "drain" /\ Len(results) = 2 * N) =>
                 /\ results[1].ready
                 /\ pc' # "loop"
                 /\ Len(results') # Len(results) =>
                      /\ results' = Tail(results)
                      /\ \/ consumed' = Append(consumed, results[1].id)
                         \/ pc' = "aborted"
      ]_vars

\* Two workers, four batches pulled: the oldest result has been handed to the
\* consumer and the orchestrator is about to pull, three results outstanding.
C19_Witness ==
    /\ processor._num_workers = 2
    /\ pc = "loop"
    /\ emitted = 4
    /\ Len(results) = 3
    /\ consumed = <<0>>

(***************************************************************************)
(* Claim on the exit step.                                                 *)
(***************************************************************************)
\* The index of the last forward entry resolved: the exit step, or the end
\* of the list.
LastStep ==
    IF IsNone(build_in.exit_step) THEN Len(build_in.config.preprocess)
    ELSE build_in.exit_step[2]

Registered(entry) == entry.op[2] \in {"tokenization", "length_filter", "alignment"}

\* Every entry of the list with a 0-based index up to last is of a
\* registered type.
ValidUpTo(list, last) ==
    \A j \in DOMAIN list : j - 1 <= last => Registered(list[j])

\* The operators of a pipeline that come from the given list.
FromList(ops, postprocess_only) ==
    {i \in DOMAIN ops : ops[i].postprocess_only = postprocess_only}

\* C21: a pipeline built with exit step s holds, of the forward list, the
\* applicable and enabled entries of index up to s and no other; entries
\* beyond s are not validated (an unregistered type there raises nothing);
\* the postprocess list of a POSTPROCESS pipeline is resolved whole, entries
\* of index beyond s included, and validated whole.
C21_ExitStepOnForwardListOnly ==
    \A process_type \in DOMAIN built_for :
        LET b == built_for[process_type]
            post == build_in.config.postprocess
        IN  /\ (b.err = "none") =
                 (/\ ValidUpTo(build_in.config.preprocess, LastStep)
                  /\ process_type = POSTPROCESS => ValidUpTo(post, Len(post)))
            /\ b.err = "none" =>
                 /\ Idents(SelectSeq(b.pipeline.ops, LAMBDA op : ~op.postprocess_only))
                      = IF process_type = POSTPROCESS
                        THEN Reversed(ForwardOps(process_type, LastStep))
                        ELSE ForwardOps(process_type, LastStep)
                 /\ \A i \in FromList(b.pipeline.ops, FALSE) :
                      b.pipeline.ops[i].index <= LastStep
                 /\ process_type = POSTPROCESS =>
                      Idents(SelectSeq(b.pipeline.ops, LAMBDA op : op.postprocess_only))
                        = PostprocessOnly

\* Exit step 0, an unregistered type at index 1 of the forward list, two
\* entries in the postprocess list: the POSTPROCESS pipeline is built with
\* one forward operator and both postprocess operators.
C21_Witness ==
    /\ build_in.exit_step = Step(0)
    /\ Len(build_in.config.preprocess) = 2
    /\ ~Registered(build_in.config.preprocess[2])
    /\ POSTPROCESS \in DOMAIN built_for
    /\ built_for[POSTPROCESS].err = "none"
    /\ Cardinality(FromList(OpsFor(POSTPROCESS), FALSE)) = 1
    /\ Cardinality(FromList(OpsFor(POSTPROCESS), TRUE)) = 2

(***************************************************************************)
(* Claim on the start state and the build state of a pipeline.             *)
(***************************************************************************)
\* The hints read from the configuration, with the given postprocess flag.
Hints(flag) ==
    [src_tokenizer |-> NoneV,
     tgt_tokenizer |-> NoneV,
     postprocess_only |-> Bool(flag),
     src_vocabulary |-> build_in.config.vocabulary.source,
     tgt_vocabulary |-> build_in.config.vocabulary.target]

ResolvedByValue ==
    LET type == frame_in.entry.op[2]
        resolved == get_operator_params(frame_in.entry, type, frame_in.label)
        built == build_operator(type, _OPERATORS_REGISTRY[type], resolved.params,
                                EmptyConfig, INFERENCE, InitialState(EmptyConfig),
                                0, NoneV).operator
    IN  IF resolved.err # "none"
        THEN [err |-> resolved.err, name |-> "", params |-> << >>]
        ELSE [err |-> "none", name |-> built.name, params |-> built.params]

\* C23: after any number of resolutions of an entry and constructions of
\* its operator, the entry of the configuration is what it was (the routing
\* fields are stripped, the override merged, the language codes written and
\* the name popped on a deep copy), and every resolution gives the same
\* name and the same parameters.
C23_ConfigurationUnchanged ==
    /\ Deref(heap, EntryRef) = frame_in.entry
    /\ \A k \in DOMAIN frame_out : frame_out[k] = ResolvedByValue

\* An entry with a name and a nested mapping, resolved twice under a label
\* whose override is merged into the nested mapping.
C23_Witness ==
    /\ Len(frame_out) = 2
    /\ frame_out[2].err = "none"
    /\ frame_out[2].name = "tok"
    /\ frame_in.label.elems = {"B"}
    /\ "source" \in DOMAIN frame_in.entry
    /\ "bpe" \in DOMAIN frame_out[2].params.source[2]
    /\ "lang" \in DOMAIN frame_out[2].params.source[2]

(***************************************************************************)
(* Claim on concurrent calls of InferenceProcessor.process_input.          *)
(***************************************************************************)
\* The threads inside Pipeline.__call__ or back from it.
InPipeline(t) ==
    /\ threads[t].pc \in {"ops", "returned", "raised"}
    /\ threads[t].pipeline # 0

\* The TUs a thread has made its batch from.
OwnUnits(t) == SeqRange(threads[t].tu_batch.tu_list)

\* C24: while process_input runs in several threads, the pipeline of the
\* processor is the object built by the constructor, with the operators
\* and the states it was built with; two calls never hold the same TU; a
\* call with a configuration override runs on a Pipeline object that is
\* neither the processor's nor any other thread's.
C24_CallsDoNotInterfere ==
    /\ inference._pipeline = 1
    /\ allocated.pipelines[1] =
         build_pipeline(inference, inference._config).pipeline
    /\ \A t, u \in InferThreads : t # u => OwnUnits(t) \cap OwnUnits(u) = {}
    /\ \A t \in InferThreads :
         InPipeline(t) /\ OverrideTruthy(threads[t].config) =>
            /\ threads[t].pipeline # inference._pipeline
            /\ \A u \in InferThreads \ {t} :
                 threads[u].pipeline # threads[t].pipeline
    /\ \A t \in InferThreads :
         InPipeline(t) /\ ~OverrideTruthy(threads[t].config) =>
            threads[t].pipeline = inference._pipeline

\* One thread is in the operators of a pipeline built for its override
\* while the other is in the operators of the pipeline of the processor.
C24_Witness ==
    /\ threads["t1"].pc = "ops" /\ threads["t1"].i = 2
    /\ OverrideTruthy(threads["t1"].config)
    /\ threads["t2"].pc = "ops" /\ threads["t2"].i = 2
    /\ ~OverrideTruthy(threads["t2"].config)
    /\ Len(allocated.pipelines) = 2

(***************************************************************************)
(* Claim on the pipeline a batch is transformed by.                        *)
(***************************************************************************)
\* The labels _get_corpus_label derives from the metadata a loader yields.
DerivedLabels == {_get_corpus_label(meta.label) : meta \in LoaderMeta}

\* The task is that of a batch of a loader, with the shared state the cache
\* c holds for its label.
TaskOfBatch(task, c) ==
    /\ task.override_label \in DerivedLabels
    /\ \E label_repr \in ReprOf(task.override_label) :
         /\ label_repr \in DOMAIN c._cached_state
         /\ task.shared_state = SharedMap(c._cached_state[label_repr])

\* The pipeline obj is one built for the label of the task with the shared
\* state of the task.
BuiltFor(obj, task) ==
    /\ ~IsNone(obj)
    /\ obj[3] = Pipeline(processor._config, processor._pipeline_type, exit_step,
                         task.override_label, task.shared_state).pipeline

\* C25: the task made of a batch carries the label derived from the
\* metadata of the batch and the shared state fetched for that label; the
\* worker that transforms the batch, whichever it is, and the inline loop
\* do it with a Pipeline built for that label and that shared state.
C25_PipelineOfTheBatchLabel ==
    [][ /\ (emitted' # emitted /\ pc' # "aborted") =>
             IF Parallel
             THEN TaskOfBatch(task_queue'[Len(task_queue')], sstate')
             ELSE TaskOfBatch(current'[2], sstate')
        /\ \A w \in Workers :
             Finishes(w) =>
                LET task == running[w][2]
                    h == HandleOf(results', task.tu_batch.id)
                IN  h.err.kind = "none" =>
                      /\ h.outputs = Outputs(task.tu_batch.id, task.override_label)
                      /\ BuiltFor(worker_pipeline'[w], task)
        /\ (pc = "process" /\ pc' = "loop") => BuiltFor(pipeline', current[2])
      ]_vars

\* A worker whose pipeline was built for no label has transformed a batch of
\* label A that came second, the result being ready.
C25_Witness ==
    /\ Parallel
    /\ Len(results) >= 1
    /\ \E i \in DOMAIN results :
         /\ results[i].ready
         /\ results[i].err.kind = "none"
         /\ results[i].id = 1
         /\ results[i].outputs =
              Outputs(1, [kind |-> "set", elems |-> {"A"}])
    /\ \E w \in Workers :
         /\ ~IsNone(worker_pipeline[w])
         /\ worker_pipeline[w][2] = "p1"
         /\ worker_pipeline[w][3].override_label = [kind |-> "set", elems |-> {"A"}]

(***************************************************************************)
(* Claim on the number of shared instances built.                          *)
(***************************************************************************)
\* The instances the cache holds for the operator of index i.
InstancesAt(i) == {cache._all_state[i][k] : k \in DOMAIN cache._all_state[i]}

\* C26: after any calls of get(), the cache holds one instance at most for
\* an operator index, a class and constructor arguments, every instance
\* built has an identity of its own, and two calls that returned a shared
\* state received the same instance wherever their labels resolve to the
\* same class and arguments at the same operator index.
C26_BuiltAtMostOnce ==
    /\ \A i \in DOMAIN cache._all_state :
         \A x, y \in InstancesAt(i) :
            (x.cls = y.cls /\ x.args = y.args) => x = y
    /\ \A x, y \in AllInstances : x.id = y.id => x = y
    /\ \A a, b \in DOMAIN gets :
         (Returned(gets[a]) /\ Returned(gets[b])) =>
            \A i \in DOMAIN gets[a].ret[2] \cap DOMAIN gets[b].ret[2] :
              \A n \in DOMAIN gets[a].ret[2][i] \cap DOMAIN gets[b].ret[2][i] :
                 LET x == gets[a].ret[2][i][n]
                     y == gets[b].ret[2][i][n]
                 IN  /\ x.args = BuilderArgs(gets[a].label, i, n)
                     /\ y.args = BuilderArgs(gets[b].label, i, n)
                     /\ (x.cls = y.cls /\ x.args = y.args) => x.id = y.id

\* The label B, for which the aligner keeps its model, asked after the label
\* A, for which it has another: B receives the instance built for no label.
C26_Witness ==
    /\ Len(gets) = 2
    /\ \A a \in DOMAIN gets : Returned(gets[a]) /\ DOMAIN gets[a].ret[2] # {}
    /\ gets[1].label.elems = {"A"}
    /\ gets[2].label.elems = {"B"}
    /\ \E i \in DOMAIN gets[2].ret[2] :
         /\ gets[2].ret[2][i].aligner.id = 1
         /\ gets[1].ret[2][i].aligner.id = 2

(***************************************************************************)
(* Claim on the state a refused call leaves.                               *)
(***************************************************************************)
\* The i-th bound operator has a payload it does not take.
RefusedAt(i) == Payload(i) # NoneV /\ ~RunOps[i].cls.options

\* C27: when the call raises for options addressed to the operator at
\* position j, j is the first position whose operator has a payload it does
\* not take, the operators before j have been applied, in order (a filter
\* among them has dropped its TUs from the batch), neither the operator at
\* j nor a later one has been applied, the profile has not been stored and
\* no TU has been finalized.
C27_RefusedPartWay ==
    (run_pc = "raised" /\ run_err = "RuntimeError") =>
        /\ run_i \in DOMAIN RunOps
        /\ RefusedAt(run_i)
        /\ \A k \in 1..(run_i - 1) : ~RefusedAt(k)
        /\ DOMAIN run_passed = 1..(run_i - 1)
        /\ \A k \in DOMAIN run_passed :
             /\ run_passed[k].index = k
             /\ RunOps[k].cls.base = "Filter" =>
                  \A c \in DOMAIN LengthFilterCriteria :
                     RunUnits \cap LengthFilterCriteria[c] = {}
        /\ \A u \in Units : run_final[u] = 0
        /\ "ops_profile" \notin DOMAIN run_batch.meta

\* The second operator refuses its options after the first one, a filter
\* called without options, has dropped a TU from the batch and kept others.
C27_Witness ==
    /\ run_pc = "raised" /\ run_err = "RuntimeError"
    /\ run_i = 2
    /\ Len(run_passed) = 1
    /\ run_passed[1].options = NoneV
    /\ RunOps[1].cls.base = "Filter"
    /\ RunUnits # {}
    /\ "filter_summary" \in DOMAIN run_batch.meta
    /\ \E n \in DOMAIN run_batch.meta.filter_summary :
         run_batch.meta.filter_summary[n] > 0

(***************************************************************************)
(* Claim on the disabled flag.                                             *)
(***************************************************************************)
\* The labels of the overrides of an entry that the label given selects.
Selected(entry, label) ==
    IF "overrides" \in DOMAIN entry /\ IsDict(entry.overrides)
    THEN label.elems \cap DOMAIN entry.overrides[2]
    ELSE {}

\* The disabled flag of the entry under the label: that of the override the
\* label selects if it sets one, that of the entry otherwise.
DisabledUnder(entry, label) ==
    LET override == entry.overrides[2][CHOOSE l \in Selected(entry, label) : TRUE][2]
    IN  IF Selected(entry, label) # {} /\ "disabled" \in DOMAIN override
        THEN Truthy(override.disabled)
        ELSE "disabled" \in DOMAIN entry /\ Truthy(entry.disabled)

\* The indices of the entries yielded.
Yielded == {gen_out[2].infos[k].i : k \in DOMAIN gen_out[2].infos}

\* C28: when the entries of a list are resolved for a label, disabled
\* operators being left out, an entry that applies to the process type is
\* yielded unless the flag is set after the override of the label is merged:
\* an override that sets the flag removes the operator for the labels that
\* select it and for no other label, an override that clears the flag of
\* the entry keeps the operator for the labels that select it and for no
\* other.
C28_DisabledAfterOverride ==
    (gen_out # NoneV /\ gen_out[2].err = "none" /\ gen_in.ignore_disabled) =>
        \A i \in gen_out[2].read :
           LET entry == gen_in.config[i + 1]
           IN  is_applied_for(_OPERATORS_REGISTRY[entry.op[2]], gen_in.process_type) =>
                 (i \in Yielded <=> ~DisabledUnder(entry, gen_in.override_label))

\* Under label B the entry that label A disables is yielded and so is the
\* disabled entry that label B enables.
C28_Witness ==
    /\ gen_out # NoneV /\ gen_out[2].err = "none" /\ gen_in.ignore_disabled
    /\ gen_in.override_label.elems = {"B"}
    /\ Len(gen_in.config) = 2
    /\ "disabled" \in DOMAIN gen_in.config[1]
    /\ "overrides" \in DOMAIN gen_in.config[2]
    /\ "A" \in DOMAIN gen_in.config[2].overrides[2]
    /\ "B" \notin DOMAIN gen_in.config[2].overrides[2]
    /\ Yielded = {0, 1}

\* Under label A the same two entries are both left out.
C28_WitnessExcluded ==
    /\ gen_out # NoneV /\ gen_out[2].err = "none" /\ gen_in.ignore_disabled
    /\ gen_in.override_label.elems = {"A"}
    /\ Len(gen_in.config) = 2
    /\ "disabled" \in DOMAIN gen_in.config[1]
    /\ "overrides" \in DOMAIN gen_in.config[2]
    /\ "disabled" \in DOMAIN gen_in.config[2].overrides[2].A[2]
    /\ gen_out[2].read = {0, 1}
    /\ Yielded = {}

(***************************************************************************)
(* Claim on the sequences handed to the consumer in the two modes.         *)
(***************************************************************************)
\* The first batch on which a run of the loader sequence stops: the failed
\* batch emitted first, else the batch whose shared state could not be
\* fetched, else none (the number of batches).
FirstBad ==
    IF failed # {} THEN LowestFailed
    ELSE IF pc = "aborted" THEN emitted - 1
    ELSE emitted

\* Batch b has gone through its pipeline without exception.
Settled(b) ==
    \/ b \in SeqRange(consumed)
    \/ \E i \in DOMAIN results :
         results[i].id = b /\ results[i].ready /\ results[i].err.kind = "none"

\* What the inline loop hands to the consumer for the same loader sequence:
\* every batch before the first one it stops on.
InlineSequence == [i \in 1..FirstBad |-> i - 1]

C29_WitnessShorter ==
    /\ Parallel /\ pc = "aborted" /\ failed = {}
    /\ \A b \in 0..(FirstBad - 1) : Settled(b)
    /\ Len(consumed) < FirstBad

====
